---- MODULE Spec2Model ----
(***************************************************************************)
(* Entity metadata resolution of myorm: the registry filled by the         *)
(* decorators, EntityMetadataBuilder.build, and the runtime                *)
(* operations of EntityMetadata (registerColumn, the id-map operations).   *)
(*                                                                         *)
(* Objects live in heaps: an EntityMetadata is its index in                *)
(* entityMetadatas, a ColumnMetadata is a key of columnHeap, so that two   *)
(* lists holding the same key hold the same object.                        *)
(***************************************************************************)
EXTENDS Integers, Sequences, FiniteSets, TLC

VARIABLES
  storage,          \* MetadataArgsStorage: tables, columns, inheritances, generations
  pass,             \* "idle" until EntityMetadataBuilder.build has returned, then "done";
                    \* the name of the running loop in a build that runs loop by loop
  entityMetadatas,  \* the EntityMetadata objects, in creation order
  columnHeap,       \* the ColumnMetadata objects, by identity
  ret,              \* the last call that returned or threw, and what it returned;
                    \* in a build that runs loop by loop, where the build is
  connection        \* the Connection: its flag, driver, cache and the calls in flight

vars == <<storage, pass, entityMetadatas, columnHeap, ret, connection>>

\* ------------------------------------------------------------------ bounds

MaxTables == 2
MaxColumns == 2
MaxGenerations == 1
MaxRegistered == 1
MaxValueColumns == 2
MaxRelations == 2
MaxUniques == 2
MaxEmbeddeds == 1
MaxHierarchyTables == 3
MaxPlaced == 3
MaxCallers == 2
MaxStatements == 3

\* ------------------------------------------------------------ JS values

Undefined == "<undefined>"
Null == "<null>"
\* The number 0, which is neither null nor undefined nor the empty string.
Zero == "<0>"

\* A JavaScript value: undefined, null, a string, a boolean, or an object literal. An
\* object literal is the set of its <<path, leaf>> pairs, a path being the property
\* names from the top (<<"address", "city">> for {address: {city: leaf}}) and a leaf a
\* string, Null or Undefined.
JsUndefined == [k |-> "undefined", s |-> "", o |-> {}]
JsNull == [k |-> "null", s |-> "", o |-> {}]
JsString(x) == [k |-> "string", s |-> x, o |-> {}]
JsBoolean(b) == [k |-> "boolean", s |-> IF b THEN "true" ELSE "false", o |-> {}]
JsObject(pairs) == [k |-> "object", s |-> "", o |-> pairs]

\* The leaf a scalar becomes when it is stored in an object literal.
Leaf(v) ==
  CASE v.k = "undefined" -> Undefined
    [] v.k = "null" -> Null
    [] OTHER -> v.s

\* What a call did: returned a value or threw an error.
Return(v) == [tag |-> "return", error |-> "", value |-> v]
Throw(e) == [tag |-> "throw", error |-> e, value |-> JsUndefined]

SeqToSet(s) == {s[i] : i \in DOMAIN s}
Contains(s, x) == \E i \in DOMAIN s : s[i] = x

\* Array.prototype.find on a list of indices: the first match, 0 for undefined.
FirstIn(S) == IF S = {} THEN 0 ELSE CHOOSE i \in S : \A j \in S : i <= j

\* ---------------------------------------------------------------- classes
\* Post extends ContentModel extends Unit; User extends an anonymous class.

Classes == {"Unit", "ContentModel", "Post", "Mixin", "User"}
StringTargets == {"audit"}
FunctionPrototype == "Function.prototype"

getPrototypeOf(object) ==
  CASE object = "ContentModel" -> "Unit"
    [] object = "Post" -> "ContentModel"
    [] object = "User" -> "Mixin"
    [] OTHER -> FunctionPrototype

\* Function.name: the anonymous class has the empty name.
NameOf(object) ==
  IF object \in {"Mixin", FunctionPrototype} THEN "" ELSE object

IsFunction(target) == target \in Classes

RECURSIVE pushPrototypes(_)
pushPrototypes(object) ==
  LET proto == getPrototypeOf(object)
  IN  IF proto # FunctionPrototype /\ NameOf(proto) # ""
      THEN <<proto>> \o pushPrototypes(proto)
      ELSE <<>>

\* EntityMetadataBuilder.getInheritanceList: tree = [entity], then every named
\* prototype pushed while walking up.
getInheritanceList(entity) == <<entity>> \o pushPrototypes(entity)

RECURSIVE PrototypeChain(_)
PrototypeChain(object) ==
  LET proto == getPrototypeOf(object)
  IN  IF proto = FunctionPrototype THEN {} ELSE {proto} \cup PrototypeChain(proto)

\* MetadataUtils.isInherited(target1, target2): target1 is a strict subclass of target2.
isInherited(target1, target2) == target2 \in PrototypeChain(target1)

\* --------------------------------------------------------------- registry

NoName == Undefined

TableMetadataArgs(target, type, name) ==
  [target |-> target, type |-> type, name |-> name, database |-> Undefined,
   schema |-> Undefined]

ColumnMetadataArgs(target, propertyName, primary, nullable) ==
  [target |-> target, propertyName |-> propertyName, mode |-> "regular",
   options |-> [primary |-> primary, nullable |-> nullable, type |-> Undefined]]

\* The table registrations of the table-level runs: every class and one schema-defined
\* (string) target, as a table of its own or as a single-table child, two classes that
\* may be given the table name "users", and a junction table, which build skips.
TableChoices ==
  {TableMetadataArgs(target, type, NoName) :
     target \in {"Unit", "ContentModel", "Post", "User"}, type \in {"regular", "entity-child"}}
  \cup {TableMetadataArgs("audit", "regular", NoName),
        TableMetadataArgs("User", "regular", "users"),
        TableMetadataArgs("Post", "regular", "users"),
        TableMetadataArgs("User", "junction", NoName)}
InheritanceTargets == {"Unit", "ContentModel"}

\* The registrations of the single-table group ContentModel / Post, whose columns are
\* declared on Unit (inherited by both), on ContentModel and on Post.
GroupTables ==
  {TableMetadataArgs("ContentModel", "regular", NoName),
   TableMetadataArgs("Post", "entity-child", NoName),
   TableMetadataArgs("Post", "regular", NoName)}
GroupInheritanceTargets == {"ContentModel"}
\* The columns of the group for the runs about nullability ...
ColumnChoices ==
  {ColumnMetadataArgs("Unit", "id", TRUE, FALSE),
   ColumnMetadataArgs("Post", "authorId", FALSE, FALSE)}
  \cup {ColumnMetadataArgs("ContentModel", "title", FALSE, nullable) : nullable \in BOOLEAN}
\* ... and the group and its columns for the runs about primary keys.
KeyTables ==
  {TableMetadataArgs("ContentModel", "regular", NoName),
   TableMetadataArgs("Post", "entity-child", NoName)}
KeyColumnChoices ==
  {ColumnMetadataArgs("Unit", "id", TRUE, FALSE),
   ColumnMetadataArgs("ContentModel", "title", FALSE, TRUE),
   ColumnMetadataArgs("Post", "authorId", TRUE, FALSE)}
GenerationChoices ==
  {[target |-> "Unit", propertyName |-> "id", strategy |-> "increment"],
   [target |-> "Post", propertyName |-> "authorId", strategy |-> "uuid"]}

EmptyStorage ==
  [tables |-> <<>>, columns |-> <<>>, inheritances |-> {}, generations |-> {},
   indices |-> <<>>, uniques |-> <<>>, embeddeds |-> <<>>]

\* @Entity / @ChildEntity: one more table registration.
Entity(target, type, name) ==
  /\ pass = "idle"
  /\ Len(storage.tables) < MaxTables
  /\ storage' = [storage EXCEPT !.tables = Append(@, TableMetadataArgs(target, type, name))]
  /\ UNCHANGED <<pass, entityMetadatas, columnHeap, ret, connection>>

\* @TableInheritance: the class is the root of a single-table group.
TableInheritance(target) ==
  /\ pass = "idle"
  /\ target \notin storage.inheritances
  /\ storage' = [storage EXCEPT !.inheritances = @ \cup {target}]
  /\ UNCHANGED <<pass, entityMetadatas, columnHeap, ret, connection>>

\* @Column: metadataConfigStorage.columns.push({mode, options, propertyName, target}).
Column(target, propertyName, primary, nullable) ==
  /\ pass = "idle"
  /\ Len(storage.columns) < MaxColumns
  /\ storage' = [storage EXCEPT !.columns =
                   Append(@, ColumnMetadataArgs(target, propertyName, primary, nullable))]
  /\ UNCHANGED <<pass, entityMetadatas, columnHeap, ret, connection>>

\* @Embedded(type): one more embedded registration.
Embedded(target, propertyName, type) ==
  /\ pass = "idle"
  /\ Len(storage.embeddeds) < MaxEmbeddeds
  /\ storage' = [storage EXCEPT !.embeddeds =
                   Append(@, [target |-> target, propertyName |-> propertyName,
                              type |-> type])]
  /\ UNCHANGED <<pass, entityMetadatas, columnHeap, ret, connection>>

\* @Column({type}): a column registration that declares its type.
ColumnOfType(target, propertyName, type) ==
  /\ pass = "idle"
  /\ Len(storage.columns) < MaxColumns
  /\ storage' = [storage EXCEPT !.columns =
                   Append(@, [ColumnMetadataArgs(target, propertyName, FALSE, FALSE)
                                EXCEPT !.options.type = type])]
  /\ UNCHANGED <<pass, entityMetadatas, columnHeap, ret, connection>>

\* @Generated / @PrimaryGeneratedColumn: a generation registered for (target, propertyName).
Generated(target, propertyName, strategy) ==
  /\ pass = "idle"
  /\ Cardinality(storage.generations) < MaxGenerations
  /\ \A g \in storage.generations : ~(g.target = target /\ g.propertyName = propertyName)
  /\ storage' = [storage EXCEPT !.generations =
                   @ \cup {[target |-> target, propertyName |-> propertyName,
                            strategy |-> strategy]}]
  /\ UNCHANGED <<pass, entityMetadatas, columnHeap, ret, connection>>

\* @Unique: metadataConfigStorage.uniques.push({options, target}).
Unique(target, name) ==
  /\ pass = "idle"
  /\ Len(storage.uniques) < MaxUniques
  /\ storage' = [storage EXCEPT !.uniques =
                   Append(@, [target |-> target, name |-> name, columns |-> <<"title">>])]
  /\ UNCHANGED <<pass, entityMetadatas, columnHeap, ret, connection>>

\* @Index: one more index registration, unique or not.
Index(target, name, unique) ==
  /\ pass = "idle"
  /\ Len(storage.indices) < MaxUniques
  /\ storage' = [storage EXCEPT !.indices =
                   Append(@, [target |-> target, name |-> name, columns |-> <<"title">>,
                              unique |-> unique, synchronize |-> TRUE])]
  /\ UNCHANGED <<pass, entityMetadatas, columnHeap, ret, connection>>

\* MetadataArgsStorage queries.
filterTables(classes) ==
  SelectSeq(storage.tables, LAMBDA t : t.target \in classes)

findInheritanceType(target) ==
  IF target \in storage.inheritances THEN "STI" ELSE Undefined

filterSingleTableChildren(target) ==
  SelectSeq(storage.tables,
            LAMBDA t : IsFunction(t.target) /\ IsFunction(target)
                       /\ isInherited(t.target, target))

\* The indices of the column registrations of the classes of the tree.
filterColumns(inheritanceTree) ==
  SelectSeq([i \in 1..Len(storage.columns) |-> i],
            LAMBDA i : Contains(inheritanceTree, storage.columns[i].target))

filterIndices(inheritanceTree) ==
  SelectSeq(storage.indices, LAMBDA args : Contains(inheritanceTree, args.target))

filterUniques(inheritanceTree) ==
  SelectSeq(storage.uniques, LAMBDA args : Contains(inheritanceTree, args.target))

filterEmbeddeds(inheritanceTree) ==
  SelectSeq(storage.embeddeds, LAMBDA args : Contains(inheritanceTree, args.target))

findGenerated(target, propertyName) ==
  {g \in storage.generations : g.target = target /\ g.propertyName = propertyName}

\* -------------------------------------------------------- ColumnMetadata

\* A ColumnMetadata built by the builder is keyed by the EntityMetadata it was built
\* for and the registration it was built from; the ones handed to registerColumn
\* at runtime have em = 0.
ColumnKey(em, arg) == [em |-> em, arg |-> arg]
UndefinedColumn == ColumnKey(0, 0)

ColumnMetadata(target, propertyName, propertyPath, isPrimary, isNullable) ==
  [target |-> target, propertyName |-> propertyName, propertyPath |-> propertyPath,
   isPrimary |-> isPrimary, isNullable |-> isNullable, isGenerated |-> FALSE,
   generationStrategy |-> Undefined, type |-> Undefined, isObjectId |-> FALSE]

\* new ColumnMetadata({connection, entityMetadata, args})
NewColumnMetadata(args) ==
  [ColumnMetadata(args.target, args.propertyName, <<args.propertyName>>,
                  args.options.primary, args.options.nullable)
     EXCEPT !.type = args.options.type]

\* The columns a caller may hand to registerColumn.
RuntimeColumns ==
  ColumnKey(0, 1) :> ColumnMetadata("User", "id", <<"id">>, TRUE, FALSE)
  @@ ColumnKey(0, 2) :> ColumnMetadata("User", "key", <<"key">>, TRUE, FALSE)
  @@ ColumnKey(0, 3) :> ColumnMetadata("User", "name", <<"name">>, FALSE, TRUE)

IsRuntimeColumn(c) == c.em = 0 /\ c.arg > 0

\* -------------------------------------------------------- EntityMetadata

\* The property initialisers and the constructor of EntityMetadata.
EntityMetadata(args, inheritanceTree, inheritancePattern) ==
  [target |-> args.target,
   tableType |-> args.type,
   tableMetadataArgs |-> args,
   inheritanceTree |-> inheritanceTree,
   inheritancePattern |-> inheritancePattern,
   parentEntityMetadata |-> 0,
   childEntityMetadatas |-> <<>>,
   database |-> Undefined,
   schema |-> Undefined,
   givenTableName |-> Undefined,
   targetName |-> Undefined,
   tableNameWithoutPrefix |-> Undefined,
   tableName |-> Undefined,
   name |-> Undefined,
   tablePath |-> <<>>,
   schemaPath |-> <<>>,
   embeddeds |-> <<>>,
   ownColumns |-> <<>>,
   columns |-> <<>>,
   relations |-> <<>>,
   ownIndices |-> <<>>,
   uniques |-> <<>>,
   primaryColumns |-> <<>>,
   hasMultiplePrimaryKeys |-> FALSE,
   hasUUIDGeneratedColumns |-> FALSE]

RECURSIVE FlattenEmbeddeds(_, _)
FlattenEmbeddeds(columns, embeddeds) ==
  IF embeddeds = <<>> THEN columns
  ELSE FlattenEmbeddeds(columns \o Head(embeddeds).columnsFromTree, Tail(embeddeds))

\* registerColumn that pushes the column and leaves primaryColumns as it was.
RecomputeOnRegisterStalePrimary(em, heap) ==
  LET columns == FlattenEmbeddeds(em.ownColumns, em.embeddeds)
  IN  [em EXCEPT
         !.columns = columns,
         !.hasMultiplePrimaryKeys = Len(em.primaryColumns) > 1]

\* registerColumn, after the push: columns, primaryColumns, hasMultiplePrimaryKeys
\* and hasUUIDGeneratedColumns recomputed from ownColumns and the embeddeds.
RecomputeOnRegister(em, heap) ==
  LET columns == FlattenEmbeddeds(em.ownColumns, em.embeddeds)
      primaryColumns == SelectSeq(columns, LAMBDA c : heap[c].isPrimary)
  IN  [em EXCEPT
         !.columns = columns,
         !.primaryColumns = primaryColumns,
         !.hasMultiplePrimaryKeys = Len(primaryColumns) > 1,
         !.hasUUIDGeneratedColumns =
            \E i \in DOMAIN columns :
               heap[columns[i]].isGenerated \/ heap[columns[i]].generationStrategy = "uuid"]

RECURSIVE registerColumn(_, _, _, _)
RECURSIVE registerColumnInChildren(_, _, _, _, _)

\* A registerColumn that pushes the column and does not hand it to the children.
registerColumnOwnOnly(all, k, column, heap) ==
  IF Contains(all[k].ownColumns, column) THEN all
  ELSE [all EXCEPT ![k] = RecomputeOnRegister([all[k] EXCEPT !.ownColumns = Append(@, column)],
                                              heap)]

\* EntityMetadata.registerColumn on entityMetadatas[k].
registerColumn(all, k, column, heap) ==
  IF Contains(all[k].ownColumns, column) THEN all
  ELSE LET pushed == [all[k] EXCEPT !.ownColumns = Append(@, column)]
           registered == [all EXCEPT ![k] = RecomputeOnRegister(pushed, heap)]
       IN  registerColumnInChildren(registered, registered[k].childEntityMetadatas, 1,
                                    column, heap)

\* this.childEntityMetadatas.forEach(entityMetadata => entityMetadata.registerColumn(column))
registerColumnInChildren(all, children, i, column, heap) ==
  IF i > Len(children) THEN all
  ELSE registerColumnInChildren(registerColumn(all, children[i], column, heap),
                                children, i + 1, column, heap)

\* DefaultNamingStrategy.tableName: the given name, or the class name in snake case.
snakeCase(name) ==
  CASE name = "Unit" -> "unit"
    [] name = "ContentModel" -> "content_model"
    [] name = "Post" -> "post"
    [] name = "User" -> "user"
    [] OTHER -> name

namingStrategyTableName(targetName, userSpecifiedName) ==
  IF userSpecifiedName # Undefined THEN userSpecifiedName ELSE snakeCase(targetName)

\* A string in a condition: undefined and the empty string are false.
Truthy(string) == string \notin {Undefined, ""}

\* A buildTablePath that puts ".." after the database on SQL Server with a schema too.
buildTablePathDoubleDot(tableName, schema, database, driverType) ==
  LET withSchema == IF Truthy(schema) THEN <<schema, tableName>> ELSE <<tableName>>
  IN  IF Truthy(database) /\ driverType # "postgres"
      THEN IF driverType = "mssql"
           THEN <<database, "">> \o withSchema
           ELSE <<database>> \o withSchema
      ELSE withSchema

\* buildTablePath. A dotted string is the sequence of the parts its dots separate, so
\* "db..table" is <<"db", "", "table">>; <<>> is undefined.
buildTablePath(tableName, schema, database, driverType) ==
  LET withSchema == IF Truthy(schema) THEN <<schema, tableName>> ELSE <<tableName>>
  IN  IF Truthy(database) /\ driverType # "postgres"
      THEN IF ~Truthy(schema) /\ driverType = "mssql"
           THEN <<database, "">> \o withSchema
           ELSE <<database>> \o withSchema
      ELSE withSchema

\* buildSchemaPath.
buildSchemaPath(schema, database, driverType) ==
  IF ~Truthy(schema) THEN <<>>
  ELSE IF Truthy(database) /\ driverType # "postgres" THEN <<database, schema>>
  ELSE <<schema>>

\* EntityMetadata.build: the table identity of one metadata.
buildEntityMetadata(all, k) ==
  LET em == all[k]
      args == em.tableMetadataArgs
      database ==
        IF args.type = "entity-child" /\ em.parentEntityMetadata # 0
        THEN all[em.parentEntityMetadata].database
        ELSE args.database
      schema == IF Truthy(args.schema) THEN args.schema ELSE connection.schema
      givenTableName ==
        IF args.type = "entity-child" /\ em.parentEntityMetadata # 0
        THEN all[em.parentEntityMetadata].givenTableName
        ELSE args.name
      targetName == IF IsFunction(args.target) THEN NameOf(args.target) ELSE args.target
      tableNameWithoutPrefix == namingStrategyTableName(targetName, givenTableName)
  IN  [em EXCEPT
         !.database = database,
         !.schema = schema,
         !.givenTableName = givenTableName,
         !.targetName = targetName,
         !.tableNameWithoutPrefix = tableNameWithoutPrefix,
         !.tableName = tableNameWithoutPrefix,
         !.name = IF targetName # "" THEN targetName ELSE tableNameWithoutPrefix,
         !.tablePath = buildTablePath(tableNameWithoutPrefix, schema, database,
                                      connection.driverType),
         !.schemaPath = buildSchemaPath(schema, database, connection.driverType)]

\* ------------------------------------------------- EntityMetadataBuilder

\* What build may be given: no list (given = FALSE), or a list of classes.
EntityClassLists ==
  {[given |-> FALSE, classes |-> {}], [given |-> TRUE, classes |-> {"ContentModel", "Post"}]}

\* createEntityMetadata: the inheritance tree of the target, the targets of the
\* single-table children pushed behind it, and a new EntityMetadata.
createEntityMetadata(tableArgs) ==
  LET ownTree ==
        IF IsFunction(tableArgs.target) THEN getInheritanceList(tableArgs.target)
        ELSE <<tableArgs.target>>
      tableInheritance == findInheritanceType(tableArgs.target)
      children == filterSingleTableChildren(tableArgs.target)
      singleTableChildrenTargets == [i \in DOMAIN children |-> children[i].target]
      inheritanceTree ==
        IF tableInheritance = "STI" \/ tableArgs.type = "entity-child"
        THEN ownTree \o singleTableChildrenTargets
        ELSE ownTree
  IN  EntityMetadata(tableArgs, inheritanceTree, tableInheritance)

\* build, its first lines: the tables kept and one EntityMetadata for each.
createEntityMetadatas(entityClasses) ==
  LET allTables ==
        IF entityClasses.given THEN filterTables(entityClasses.classes) ELSE storage.tables
      realTables ==
        SelectSeq(allTables, LAMBDA t : t.type \in {"regular", "closure", "entity-child"})
  IN  [i \in DOMAIN realTables |-> createEntityMetadata(realTables[i])]

\* computeParentEntityMetadata: the first metadata of pattern STI whose tree holds the
\* target; find() gives undefined (0) when there is none.
computeParentEntityMetadata(all, k) ==
  IF all[k].tableType = "entity-child"
  THEN [all[k] EXCEPT !.parentEntityMetadata =
          FirstIn({j \in DOMAIN all :
                     /\ Contains(all[j].inheritanceTree, all[k].target)
                     /\ all[j].inheritancePattern = "STI"})]
  ELSE all[k]

\* Child linking that takes every metadata whose inheritance list holds the class.
computeChildEntityMetadatasByList(all, k) ==
  [all[k] EXCEPT !.childEntityMetadatas =
     SelectSeq([j \in DOMAIN all |-> j],
               LAMBDA j : /\ IsFunction(all[k].target)
                          /\ IsFunction(all[j].target)
                          /\ Contains(getInheritanceList(all[j].target), all[k].target))]

\* build, child linking: the metadatas whose class inherits the class of this one.
computeChildEntityMetadatas(all, k) ==
  [all[k] EXCEPT !.childEntityMetadatas =
     SelectSeq([j \in DOMAIN all |-> j],
               LAMBDA j : /\ IsFunction(all[k].target)
                          /\ IsFunction(all[j].target)
                          /\ isInherited(all[j].target, all[k].target))]

\* computeEntityMetadataStep1, ownColumns: for each registration of the tree either the
\* parent's column of that property name (an entity-child) or a new ColumnMetadata.
step1OwnColumns(all, k) ==
  LET args == filterColumns(all[k].inheritanceTree)
  IN  [n \in DOMAIN args |->
         IF all[k].tableType = "entity-child"
         THEN LET parent == all[all[k].parentEntityMetadata].ownColumns
                  found == FirstIn({i \in DOMAIN parent :
                                      columnHeap[parent[i]].propertyName
                                        = storage.columns[args[n]].propertyName})
              IN  IF found = 0 THEN UndefinedColumn ELSE parent[found]
         ELSE ColumnKey(k, args[n])]

\* The ColumnMetadata created in metadata k for column registration n of the type of
\* its e-th embedded; the columns of the metadata itself have e = 0.
EmbeddedColumnKey(k, e, n) == ColumnKey(k, e * (MaxColumns + 1) + n)

\* computeEntityMetadataStep1, embeddeds: one EmbeddedMetadata for each embedded
\* registration of the tree, with a new column for each column registration of the
\* embedded type. Embeddeds inside the embedded type are left out.
step1Embeddeds(all, k) ==
  LET args == filterEmbeddeds(all[k].inheritanceTree)
  IN  [e \in DOMAIN args |->
         LET registered == filterColumns(<<args[e].type>>)
             columns == [i \in DOMAIN registered |-> EmbeddedColumnKey(k, e, registered[i])]
         IN  [propertyName |-> args[e].propertyName, type |-> args[e].type,
              columns |-> columns, columnsFromTree |-> columns]]

\* The column created for an embedded: its path runs through the embedded's property,
\* and it is nullable when the owning metadata uses single-table inheritance.
step1NewEmbeddedColumn(all, k, arg) ==
  LET embedded == filterEmbeddeds(all[k].inheritanceTree)[arg \div (MaxColumns + 1)]
      created == NewColumnMetadata(storage.columns[arg % (MaxColumns + 1)])
  IN  [created EXCEPT
         !.propertyPath = <<embedded.propertyName, created.propertyName>>,
         !.isNullable = IF all[k].inheritancePattern = "STI" THEN TRUE ELSE @]

\* The columns step 1 creates for metadata k: its own and those of its embeddeds.
step1Created(all, k) ==
  SeqToSet(FlattenEmbeddeds(step1OwnColumns(all, k), step1Embeddeds(all, k)))

\* A step 1 that builds the column and never looks for an entity-child of its class.
step1NewColumnAsDeclared(all, arg) == NewColumnMetadata(storage.columns[arg])

\* computeEntityMetadataStep1: the ColumnMetadata created for registration arg of
\* metadata k, nullable when an entity-child metadata has the registration's target.
step1NewColumn(all, arg) ==
  LET created == NewColumnMetadata(storage.columns[arg])
      columnInSingleTableInheritedChild ==
        \E j \in DOMAIN all :
           all[j].tableType = "entity-child" /\ all[j].target = storage.columns[arg].target
  IN  IF columnInSingleTableInheritedChild
      THEN [created EXCEPT !.isNullable = TRUE]
      ELSE created

\* The ColumnMetadata step 1 creates under the key c.
step1Column(all, c) ==
  IF c.arg > MaxColumns THEN step1NewEmbeddedColumn(all, c.em, c.arg)
  ELSE step1NewColumn(all, c.arg)

\* new IndexMetadata({entityMetadata, args}) and new UniqueMetadata({entityMetadata, args}).
IndexMetadata(k, args) == [entityMetadata |-> k, args |-> args]
UniqueMetadata(k, args) == [entityMetadata |-> k, args |-> args]

\* What step 1 does with one unique registration when the driver is a MysqlDriver:
\* the arguments of the unique index that stands for it.
uniqueIndexArgs(args) ==
  [target |-> args.target, name |-> args.name, columns |-> args.columns,
   unique |-> TRUE, synchronize |-> TRUE]

\* A step 1 that makes the unique indices and fills the uniques as well.
step1UniquesOnEveryDriver(all, k) ==
  LET tree == all[k].inheritanceTree
      uniques == filterUniques(tree)
      ownIndices == [i \in DOMAIN filterIndices(tree) |->
                       IndexMetadata(k, filterIndices(tree)[i])]
  IN  [all[k] EXCEPT
         !.ownIndices = ownIndices \o [i \in DOMAIN uniques |->
                                         IndexMetadata(k, uniqueIndexArgs(uniques[i]))],
         !.uniques = [i \in DOMAIN uniques |-> UniqueMetadata(k, uniques[i])]]

\* computeEntityMetadataStep1, ownIndices and uniques: the registered indices, and the
\* uniques as unique indices behind them on a MysqlDriver, as UniqueMetadata elsewhere.
step1Uniques(all, k) ==
  LET tree == all[k].inheritanceTree
      uniques == filterUniques(tree)
      ownIndices == [i \in DOMAIN filterIndices(tree) |->
                       IndexMetadata(k, filterIndices(tree)[i])]
  IN  IF connection.driverType = "mysql"
      THEN [all[k] EXCEPT
              !.ownIndices = ownIndices \o [i \in DOMAIN uniques |->
                                              IndexMetadata(k, uniqueIndexArgs(uniques[i]))]]
      ELSE [all[k] EXCEPT
              !.ownIndices = ownIndices,
              !.uniques = [i \in DOMAIN uniques |-> UniqueMetadata(k, uniques[i])]]

\* build runs step 1 on the metadatas that are not entity-child.
Step1Targets(all) == {k \in DOMAIN all : all[k].tableType # "entity-child"}

\* computeEntityMetadataStep2: the derived properties of one metadata.
computeEntityMetadataStep2(em, heap) ==
  LET columns == FlattenEmbeddeds(em.ownColumns, em.embeddeds)
      primaryColumns == SelectSeq(columns, LAMBDA c : heap[c].isPrimary)
  IN  [em EXCEPT
         !.columns = columns,
         !.primaryColumns = primaryColumns,
         !.hasMultiplePrimaryKeys = Len(primaryColumns) > 1,
         !.hasUUIDGeneratedColumns =
            \E i \in DOMAIN columns :
               heap[columns[i]].isGenerated /\ heap[columns[i]].generationStrategy = "uuid"]

\* A patch that gives every generated column the uuid type.
patchGeneratedAsUuid(column) ==
  LET found == findGenerated(column.target, column.propertyName)
      generated == CHOOSE g \in found : TRUE
  IN  IF found = {} THEN column
      ELSE [column EXCEPT
              !.isGenerated = TRUE,
              !.generationStrategy = generated.strategy,
              !.type = "uuid"]

\* build, last loop: a column with a generation registration is patched.
patchGenerated(column) ==
  LET found == findGenerated(column.target, column.propertyName)
      generated == CHOOSE g \in found : TRUE
  IN  IF found = {} THEN column
      ELSE [column EXCEPT
              !.isGenerated = TRUE,
              !.generationStrategy = generated.strategy,
              !.type = IF generated.strategy = "increment"
                       THEN (IF column.type # Undefined THEN column.type ELSE "Number")
                       ELSE "uuid"]

hasGenerated(em, heap) ==
  \E i \in DOMAIN em.columns :
     findGenerated(heap[em.columns[i]].target, heap[em.columns[i]].propertyName) # {}

\* The passes of build, each over all the metadatas.
passParents(all) == [k \in DOMAIN all |-> computeParentEntityMetadata(all, k)]

passChildren(all) == [k \in DOMAIN all |-> computeChildEntityMetadatas(all, k)]

passStep0(all) ==
  [k \in DOMAIN all |->
     IF all[k].tableType # "entity-child" THEN buildEntityMetadata(all, k) ELSE all[k]]

passStep1(all) ==
  LET owned == [k \in DOMAIN all |->
                  IF k \in Step1Targets(all)
                  THEN [step1Uniques(all, k) EXCEPT
                          !.embeddeds = step1Embeddeds(all, k),
                          !.ownColumns = step1OwnColumns(all, k)]
                  ELSE all[k]]
      newKeys == {c \in UNION {step1Created(all, k) : k \in Step1Targets(all)} :
                    c \notin DOMAIN columnHeap}
  IN  [entityMetadatas |-> owned,
       columnHeap |-> [c \in DOMAIN columnHeap \cup newKeys |->
                         IF c \in newKeys THEN step1Column(all, c)
                         ELSE columnHeap[c]]]

passStep2(built) ==
  [entityMetadatas |->
     [k \in DOMAIN built.entityMetadatas |->
        computeEntityMetadataStep2(built.entityMetadatas[k], built.columnHeap)],
   columnHeap |-> built.columnHeap]

passGenerated(built) ==
  LET all == built.entityMetadatas
      heap == built.columnHeap
      patched == UNION {SeqToSet(all[k].columns) : k \in DOMAIN all}
      heap2 == [c \in DOMAIN heap |->
                  IF c \in patched THEN patchGenerated(heap[c]) ELSE heap[c]]
  IN  [entityMetadatas |->
         [k \in DOMAIN all |->
            IF hasGenerated(all[k], heap)
            THEN computeEntityMetadataStep2(all[k], heap2) ELSE all[k]],
       columnHeap |-> heap2]

\* EntityMetadataBuilder.build(entityClasses), from its first line to its return.
buildAll(entityClasses) ==
  passGenerated(passStep2(passStep1(passStep0(passChildren(passParents(
    createEntityMetadatas(entityClasses)))))))

NoCall == [op |-> "none"]

\* connection bootstrap: build(entityClasses) runs to its return.
Build(entityClasses) ==
  /\ pass = "idle"
  /\ LET built == buildAll(entityClasses)
     IN  /\ entityMetadatas' = built.entityMetadatas
         /\ columnHeap' = built.columnHeap
  /\ pass' = "done"
  /\ UNCHANGED <<storage, ret, connection>>

\* The loops of build in the order of its statements, inverse resolution first.
BuildPassesInverseEarly ==
  <<"create", "parents", "children", "step0", "inverse", "step1", "step2",
    "indices", "uniques", "checks", "generated">>

\* The loops of build in the order of its statements.
BuildPasses ==
  <<"create", "parents", "children", "step0", "step1", "step2", "inverse",
    "indices", "uniques", "checks", "generated">>

\* The number of items the loop runs over: the tables kept, or the metadatas.
passLength(p) ==
  IF p = "create" THEN Len(createEntityMetadatas([given |-> FALSE, classes |-> {}]))
  ELSE Len(entityMetadatas)

\* The filters in front of step 0 and step 1 let no entity-child through.
passSelects(p, em) == p \notin {"step0", "step1"} \/ em.tableType # "entity-child"

\* The body of the loop p for the metadata k. Without registered relations, indices,
\* uniques and checks the bodies of those loops change nothing.
passBody(p, all, heap, k) ==
  CASE p = "parents" ->
         [entityMetadatas |-> [all EXCEPT ![k] = computeParentEntityMetadata(all, k)],
          columnHeap |-> heap]
    [] p = "children" ->
         [entityMetadatas |-> [all EXCEPT ![k] = computeChildEntityMetadatas(all, k)],
          columnHeap |-> heap]
    [] p = "step0" ->
         [entityMetadatas |-> [all EXCEPT ![k] = buildEntityMetadata(all, k)],
          columnHeap |-> heap]
    [] p = "step1" ->
         LET ownColumns == step1OwnColumns(all, k)
             newKeys == step1Created(all, k) \ DOMAIN heap
         IN  [entityMetadatas |->
                [all EXCEPT ![k] = [step1Uniques(all, k) EXCEPT
                                      !.embeddeds = step1Embeddeds(all, k),
                                      !.ownColumns = ownColumns]],
              columnHeap |-> [c \in DOMAIN heap \cup newKeys |->
                                IF c \in newKeys THEN step1Column(all, c)
                                ELSE heap[c]]]
    [] p = "step2" ->
         [entityMetadatas |-> [all EXCEPT ![k] = computeEntityMetadataStep2(all[k], heap)],
          columnHeap |-> heap]
    [] p = "generated" ->
         LET patched == [c \in DOMAIN heap |->
                           IF Contains(all[k].columns, c) THEN patchGenerated(heap[c])
                           ELSE heap[c]]
         IN  [entityMetadatas |->
                IF hasGenerated(all[k], heap)
                THEN [all EXCEPT ![k] = computeEntityMetadataStep2(all[k], patched)]
                ELSE all,
              columnHeap |-> patched]
    [] OTHER -> [entityMetadatas |-> all, columnHeap |-> heap]

\* build is entered: its first loop is about to run.
BuildStarts ==
  /\ pass = "idle"
  /\ pass' = BuildPasses[1]
  /\ ret' = [op |-> "build", entityMetadata |-> 1, visited |-> <<>>]
  /\ UNCHANGED <<storage, entityMetadatas, columnHeap, connection>>

\* The running loop takes its next item: a table becomes an EntityMetadata, or the
\* loop's body runs on a metadata its filter selects.
BuildVisits ==
  /\ pass \in SeqToSet(BuildPasses)
  /\ ret.entityMetadata <= passLength(pass)
  /\ LET k == ret.entityMetadata
         selected == pass = "create" \/ passSelects(pass, entityMetadatas[k])
         built == passBody(pass, entityMetadatas, columnHeap, k)
     IN  /\ entityMetadatas' =
               IF pass = "create"
               THEN Append(entityMetadatas,
                           createEntityMetadatas([given |-> FALSE, classes |-> {}])[k])
               ELSE IF selected THEN built.entityMetadatas ELSE entityMetadatas
         /\ columnHeap' =
               IF pass # "create" /\ selected THEN built.columnHeap ELSE columnHeap
         /\ ret' = [ret EXCEPT !.entityMetadata = k + 1,
                               !.visited = IF selected THEN Append(@, <<pass, k>>) ELSE @]
  /\ UNCHANGED <<storage, pass, connection>>

\* The running loop is over: the next one starts, or build returns the metadatas.
BuildNextPass ==
  /\ pass \in SeqToSet(BuildPasses)
  /\ ret.entityMetadata > passLength(pass)
  /\ LET i == CHOOSE i \in DOMAIN BuildPasses : BuildPasses[i] = pass
     IN  pass' = IF i = Len(BuildPasses) THEN "done" ELSE BuildPasses[i + 1]
  /\ ret' = [ret EXCEPT !.entityMetadata = 1]
  /\ UNCHANGED <<storage, entityMetadatas, columnHeap, connection>>

\* A caller hands a column to entityMetadatas[k].registerColumn.
RegisterColumn(k, column) ==
  /\ k \in DOMAIN entityMetadatas
  /\ column \in DOMAIN columnHeap
  /\ entityMetadatas' = registerColumn(entityMetadatas, k, column, columnHeap)
  /\ ret' = [op |-> "registerColumn", em |-> k, column |-> column]
  /\ UNCHANGED <<storage, pass, columnHeap, connection>>

\* A Connection as its constructor leaves it; queryResultCache is "off" when
\* options.cache is not set.
NotOpened(queryResultCache) ==
  [isCurrentConnected |-> FALSE, driver |-> "disconnected",
   driverType |-> "mysql", schema |-> Undefined,
   queryResultCache |-> queryResultCache, connect |-> "none", caught |-> Undefined,
   close |-> [caller \in {"connect", "user"} |-> "none"]]

\* ------------------------------------------------------------ Connection

\* @Entity(name, {database}): a table registration that names its database.
EntityInDatabase(target, name, database) ==
  /\ pass = "idle"
  /\ Len(storage.tables) < MaxTables
  /\ storage' = [storage EXCEPT !.tables =
                   Append(@, [TableMetadataArgs(target, "regular", name)
                                EXCEPT !.database = database])]
  /\ UNCHANGED <<pass, entityMetadatas, columnHeap, ret, connection>>

\* @Entity({database, schema}): a table registration that names its database and schema.
EntityInSchema(target, database, schema) ==
  /\ pass = "idle"
  /\ Len(storage.tables) < MaxTables
  /\ storage' = [storage EXCEPT !.tables =
                   Append(@, [TableMetadataArgs(target, "regular", NoName)
                                EXCEPT !.database = database, !.schema = schema])]
  /\ UNCHANGED <<pass, entityMetadatas, columnHeap, ret, connection>>

\* EntityMetadataValidator.validateMany: the registrations the specification calls
\* structurally inconsistent are raised as an error, anything else passes.
validateMany(all) ==
  IF \E k \in DOMAIN all :
        all[k].tableType = "entity-child" /\ all[k].parentEntityMetadata = 0
  THEN Throw("UnresolvedParentError")
  ELSE IF \E k \in DOMAIN all, j \in DOMAIN all : k # j /\ all[k].target = all[j].target
  THEN Throw("DuplicateTargetError")
  ELSE Return(JsUndefined)

\* The catch block of connect(): `await this.close()` before `throw error`. close()
\* finds isCurrentConnected set, calls driver.disconnect() and awaits it.
connectCatchRethrowOnly(c, error) ==
  [c EXCEPT !.caught = error, !.connect = "rejected"]

connectCatch(c, error) ==
  [c EXCEPT !.caught = error, !.connect = "catch", !.close["connect"] = "driver.disconnect"]

\* connect() from line 126 to its next await: the flag is set, buildMetadatas builds,
\* assigns and validates the metadatas, and the call goes on to driver.afterConnect()
\* or into its catch block.
Bootstrap(c) ==
  LET built == buildAll([given |-> FALSE, classes |-> {}])
      validated == validateMany(built.entityMetadatas)
      connected == [c EXCEPT !.isCurrentConnected = TRUE]
  IN  /\ entityMetadatas' = built.entityMetadatas
      /\ columnHeap' = built.columnHeap
      /\ pass' = "done"
      /\ connection' =
            IF validated.tag = "return"
            THEN [connected EXCEPT !.connect = "driver.afterConnect"]
            ELSE connectCatch(connected, validated.error)
      /\ ret' = IF connection'.connect = "rejected"
                THEN [op |-> "connect", result |-> Throw(connection'.caught)]
                ELSE ret
      /\ UNCHANGED storage

\* connect() is called: it throws when the flag is set, else calls driver.connect().
Connect ==
  /\ connection.connect \in {"none", "resolved", "rejected"}
  /\ IF connection.isCurrentConnected
     THEN /\ connection' = [connection EXCEPT !.connect = "rejected", !.caught = Undefined]
          /\ ret' = [op |-> "connect",
                     result |-> Throw("CannotConnectAlreadyConnectedError")]
     ELSE /\ connection' =
               [connection EXCEPT !.connect = "driver.connect", !.caught = Undefined]
          /\ ret' = ret
  /\ UNCHANGED <<storage, pass, entityMetadatas, columnHeap>>

\* driver.connect() has resolved: the cache is connected next when there is one.
DriverConnected ==
  /\ connection.connect = "driver.connect"
  /\ LET c == [connection EXCEPT !.driver = "connected"]
     IN  IF c.queryResultCache # "off"
         THEN /\ connection' = [c EXCEPT !.connect = "queryResultCache.connect"]
              /\ UNCHANGED <<storage, pass, entityMetadatas, columnHeap, ret>>
         ELSE Bootstrap(c)

\* queryResultCache.connect() has resolved.
CacheConnected ==
  /\ connection.connect = "queryResultCache.connect"
  /\ Bootstrap([connection EXCEPT !.queryResultCache = "connected"])

\* driver.afterConnect() has resolved; no dropSchema, synchronize or migrationsRun.
AfterConnected ==
  /\ connection.connect = "driver.afterConnect"
  /\ connection' = [connection EXCEPT !.connect = "resolved"]
  /\ ret' = [op |-> "connect", result |-> Return(JsString("this"))]
  /\ UNCHANGED <<storage, pass, entityMetadatas, columnHeap>>

\* close() is called by the application.
Close ==
  /\ connection.close["user"] = "none"
  /\ IF ~connection.isCurrentConnected
     THEN /\ ret' = [op |-> "close", result |-> Throw("CannotExecuteNotConnectedError")]
          /\ UNCHANGED connection
     ELSE /\ connection' = [connection EXCEPT !.close["user"] = "driver.disconnect"]
          /\ ret' = ret
  /\ UNCHANGED <<storage, pass, entityMetadatas, columnHeap>>

\* close() returns to its caller: the application, or the catch block of connect(),
\* which throws the error it caught.
closeReturns(c, caller) ==
  LET closed == [c EXCEPT !.isCurrentConnected = FALSE, !.close[caller] = "none"]
  IN  IF caller = "connect" THEN [closed EXCEPT !.connect = "rejected"] ELSE closed

closeResult(c, caller) ==
  IF caller = "connect" THEN [op |-> "connect", result |-> Throw(c.caught)]
  ELSE [op |-> "close", result |-> Return(JsUndefined)]

\* driver.disconnect() of a close() has resolved.
DriverDisconnected(caller) ==
  /\ connection.close[caller] = "driver.disconnect"
  /\ LET c == [connection EXCEPT !.driver = "disconnected"]
     IN  IF c.queryResultCache # "off"
         THEN /\ connection' = [c EXCEPT !.close[caller] = "queryResultCache.disconnect"]
              /\ ret' = ret
         ELSE /\ connection' = closeReturns(c, caller)
              /\ ret' = closeResult(c, caller)
  /\ UNCHANGED <<storage, pass, entityMetadatas, columnHeap>>

\* queryResultCache.disconnect() of a close() has resolved.
CacheDisconnected(caller) ==
  /\ connection.close[caller] = "queryResultCache.disconnect"
  /\ LET c == [connection EXCEPT !.queryResultCache = "disconnected"]
     IN  /\ connection' = closeReturns(c, caller)
         /\ ret' = closeResult(c, caller)
  /\ UNCHANGED <<storage, pass, entityMetadatas, columnHeap>>

\* What a caller may look a metadata up by: a class, or a string given as the parts
\* its dots separate.
ClassTarget(class) == [isString |-> FALSE, class |-> class, parts |-> <<>>]
StringTarget(parts) == [isString |-> TRUE, class |-> "", parts |-> parts]

\* The predicate of findMetadata for one metadata.
findMetadataMatches(metadata, target) ==
  IF ~target.isString THEN metadata.target = target.class /\ IsFunction(metadata.target)
  ELSE \/ ~IsFunction(metadata.target) /\ <<metadata.target>> = target.parts
       \/ IF Len(target.parts) > 1
          THEN metadata.tablePath = target.parts
          ELSE <<metadata.name>> = target.parts \/ <<metadata.tableName>> = target.parts

\* findMetadata: the first metadata of this.entityMetadatas that matches, 0 for undefined.
findMetadata(all, target) ==
  FirstIn({k \in DOMAIN all : findMetadataMatches(all[k], target)})

hasMetadata(all, target) == findMetadata(all, target) # 0

\* getMetadata that hands out the first metadata when none matches.
getMetadataOrFirst(all, target) ==
  LET metadata == findMetadata(all, target)
  IN  IF metadata = 0 /\ all = <<>>
      THEN [tag |-> "throw", error |-> "EntityMetadataNotFoundError",
            target |-> target, metadata |-> 0]
      ELSE [tag |-> "return", error |-> "", target |-> target,
            metadata |-> IF metadata = 0 THEN 1 ELSE metadata]

\* getMetadata: the metadata found, or EntityMetadataNotFoundError(target) thrown.
getMetadata(all, target) ==
  LET metadata == findMetadata(all, target)
  IN  IF metadata = 0
      THEN [tag |-> "throw", error |-> "EntityMetadataNotFoundError",
            target |-> target, metadata |-> 0]
      ELSE [tag |-> "return", error |-> "", target |-> target, metadata |-> metadata]

\* The targets looked up: classes, names, table names, a table path and a string target.
LookupTargets ==
  {ClassTarget("Post"), ClassTarget("ContentModel"),
   StringTarget(<<"Post">>), StringTarget(<<"post">>), StringTarget(<<"app", "post">>),
   StringTarget(<<"content_model">>), StringTarget(<<"audit">>)}

\* A task asks the connection for the metadata of a target; both lookups are made on
\* the same entityMetadatas.
GetMetadata(target) ==
  /\ ret' = [op |-> "getMetadata", target |-> target,
             result |-> getMetadata(entityMetadatas, target),
             has |-> hasMetadata(entityMetadatas, target),
             before |-> entityMetadatas]
  /\ UNCHANGED <<storage, pass, entityMetadatas, columnHeap, connection>>

\* A concurrent task reads the isConnected getter.
IsConnected ==
  /\ ret' = [op |-> "isConnected", result |-> Return(JsBoolean(connection.isCurrentConnected))]
  /\ UNCHANGED <<storage, pass, entityMetadatas, columnHeap, connection>>

\* ------------------------------------------------- id maps of an entity

\* ColumnMetadata.getEntityValue: the leaf of the entity at the column's property path.
getEntityValue(column, entity) ==
  IF \E e \in entity.o : e[1] = column.propertyPath
  THEN (CHOOSE e \in entity.o : e[1] = column.propertyPath)[2]
  ELSE Undefined

\* ColumnMetadata.createValueMap: the value wrapped under the column's property path.
createValueMap(column, value) == JsObject({<<column.propertyPath, Leaf(value)>>})

\* ColumnMetadata.getEntityValueMap: the column's own map of the entity's value, or
\* undefined when the value is missing (or null, when nulls are skipped).
getEntityValueMap(column, entity, skipNulls) ==
  LET value == getEntityValue(column, entity)
  IN  IF value = Undefined \/ (skipNulls /\ value = Null) THEN JsUndefined
      ELSE JsObject({<<column.propertyPath, value>>})

\* OrmUtils.mergeDeep(target, source): the leaves of source laid over those of target.
mergeDeep(target, source) ==
  JsObject({e \in target.o : ~\E f \in source.o : f[1] = e[1]} \cup source.o)

\* Object.assign(target, source): the top-level properties of source replace target's.
objectAssign(target, source) ==
  JsObject({e \in target.o : ~\E f \in source.o : f[1][1] = e[1][1]} \cup source.o)

\* OrmUtils.deepCompare
deepCompare(first, second) == first = second

\* A reduce that forgets a missing value once a later column has one.
RECURSIVE reduceValueMapFromLastMissing(_, _, _, _, _)
reduceValueMapFromLastMissing(map, entity, columns, heap, skipNulls) ==
  IF columns = <<>> THEN map
  ELSE LET column == heap[Head(columns)]
           value == getEntityValueMap(column, entity, skipNulls)
           merged == IF value.k \in {"null", "undefined"} THEN JsUndefined
                     ELSE IF map.k = "undefined" THEN value
                     ELSE mergeDeep(map, value)
       IN  reduceValueMapFromLastMissing(merged, entity, Tail(columns), heap, skipNulls)

RECURSIVE reduceValueMap(_, _, _, _, _)
reduceValueMap(map, entity, columns, heap, skipNulls) ==
  IF columns = <<>> THEN map
  ELSE LET column == heap[Head(columns)]
           value == getEntityValueMap(column, entity, skipNulls)
           merged == IF map.k = "undefined" \/ value.k \in {"null", "undefined"}
                     THEN JsUndefined
                     ELSE IF column.isObjectId THEN objectAssign(map, value)
                     ELSE mergeDeep(map, value)
       IN  reduceValueMap(merged, entity, Tail(columns), heap, skipNulls)

\* A getValueMap that leaves out the columns without a value and keeps the others.
getValueMapOfPresentValues(entity, columns, heap, skipNulls) ==
  JsObject(UNION {getEntityValueMap(heap[columns[i]], entity, skipNulls).o :
                    i \in DOMAIN columns})

\* EntityMetadata.getValueMap(entity, columns, options): columns.reduce(..., {}).
getValueMap(entity, columns, heap, skipNulls) ==
  reduceValueMap(JsObject({}), entity, columns, heap, skipNulls)

\* A getEntityIdMap that maps every column of the entity, not the primary ones.
getEntityIdMapOfAllColumns(em, heap, entity) ==
  IF entity.k \in {"undefined", "null"} THEN JsUndefined
  ELSE getValueMap(entity, em.columns, heap, TRUE)

\* EntityMetadata.getEntityIdMap(entity)
getEntityIdMap(em, heap, entity) ==
  IF entity.k \in {"undefined", "null"} THEN JsUndefined
  ELSE getValueMap(entity, em.primaryColumns, heap, TRUE)

\* A hasId that takes the empty string for a value.
hasIdAcceptingEmpty(em, heap, entity) ==
  IF entity.k \in {"undefined", "null"} THEN FALSE
  ELSE \A i \in DOMAIN em.primaryColumns :
          getEntityValue(heap[em.primaryColumns[i]], entity) \notin {Null, Undefined}

\* EntityMetadata.hasId(entity)
hasId(em, heap, entity) ==
  IF entity.k \in {"undefined", "null"} THEN FALSE
  ELSE \A i \in DOMAIN em.primaryColumns :
          getEntityValue(heap[em.primaryColumns[i]], entity) \notin {Null, Undefined, ""}

\* EntityMetadata.hasAllPrimaryKeys(entity)
hasAllPrimaryKeys(em, heap, entity) ==
  \A i \in DOMAIN em.primaryColumns :
     getEntityValue(heap[em.primaryColumns[i]], entity) \notin {Null, Undefined}

\* A getEntityIdMixedMap that gives the id map whatever the number of primary columns.
getEntityIdMixedMapAsMap(em, heap, entity) ==
  IF entity.k \in {"undefined", "null"} THEN Return(entity)
  ELSE Return(getEntityIdMap(em, heap, entity))

\* EntityMetadata.getEntityIdMixedMap(entity); as in ensureEntityIdMap, primaryColumns[0]
\* of an entity without primary columns is undefined.
getEntityIdMixedMap(em, heap, entity) ==
  IF entity.k \in {"undefined", "null"} THEN Return(entity)
  ELSE LET idMap == getEntityIdMap(em, heap, entity)
       IN  IF em.hasMultiplePrimaryKeys THEN Return(idMap)
           ELSE IF idMap.k # "undefined"
           THEN IF em.primaryColumns = <<>> THEN Throw("TypeError")
                ELSE Return(JsString(getEntityValue(heap[em.primaryColumns[1]], idMap)))
           ELSE Return(idMap)

\* An ensureEntityIdMap that never looks at hasMultiplePrimaryKeys.
ensureEntityIdMapUnderFirstKey(em, heap, id) ==
  IF id.k = "object" THEN Return(id)
  ELSE IF em.primaryColumns = <<>> THEN Throw("TypeError")
  ELSE Return(createValueMap(heap[em.primaryColumns[1]], id))

\* EntityMetadata.ensureEntityIdMap(id); primaryColumns[0] of an entity without
\* primary columns is undefined, and calling createValueMap on it a TypeError.
ensureEntityIdMap(em, heap, id) ==
  IF id.k = "object" THEN Return(id)
  ELSE IF em.hasMultiplePrimaryKeys THEN Throw("CannotCreateEntityIdMapError")
  ELSE IF em.primaryColumns = <<>> THEN Throw("TypeError")
  ELSE Return(createValueMap(heap[em.primaryColumns[1]], id))

\* EntityMetadata.compareIds(firstId, secondId)
compareIds(firstId, secondId) ==
  IF firstId.k \in {"undefined", "null"} \/ secondId.k \in {"undefined", "null"}
  THEN FALSE
  ELSE deepCompare(firstId, secondId)

\* A compareEntities that only asks whether both entities have an id map.
compareEntitiesByPresence(em, heap, firstEntity, secondEntity) ==
  /\ getEntityIdMap(em, heap, firstEntity).k # "undefined"
  /\ getEntityIdMap(em, heap, secondEntity).k # "undefined"

\* EntityMetadata.compareEntities(firstEntity, secondEntity)
compareEntities(em, heap, firstEntity, secondEntity) ==
  LET firstEntityIdMap == getEntityIdMap(em, heap, firstEntity)
      secondEntityIdMap == getEntityIdMap(em, heap, secondEntity)
  IN  IF firstEntityIdMap.k = "undefined" THEN FALSE
      ELSE IF secondEntityIdMap.k = "undefined" THEN FALSE
      ELSE compareIds(firstEntityIdMap, secondEntityIdMap)

\* The entities handed to the id-map operations: objects with an id, a key and a name
\* (a leaf Undefined is a missing property), and no entity at all.
EntityObject(id, key) ==
  JsObject({e \in {<<<<"id">>, id>>, <<<<"key">>, key>>, <<<<"name">>, "x">>} :
              e[2] # Undefined})
Entities ==
  {EntityObject(id, key) : id \in {"u1", "u2", "", Null, Undefined}, key \in {"u1", Null}}
  \cup {JsUndefined}

\* The ids handed to ensureEntityIdMap: scalars and one id map.
Ids ==
  {JsString("u1"), JsString(""), JsNull, JsUndefined,
   JsObject({<<<<"id">>, "u2">>})}

Call(op, k, a, b, result) ==
  [op |-> op, em |-> k, a |-> a, b |-> b, result |-> result,
   before |-> entityMetadatas]

\* A caller asks entityMetadatas[k] for the id map of the id.
EnsureEntityIdMap(k, id) ==
  /\ k \in DOMAIN entityMetadatas
  /\ ret' = Call("ensureEntityIdMap", k, id, JsUndefined,
                 ensureEntityIdMap(entityMetadatas[k], columnHeap, id))
  /\ UNCHANGED <<storage, pass, entityMetadatas, columnHeap, connection>>

\* A caller asks entityMetadatas[k] for the id map of an entity.
GetEntityIdMap(k, entity) ==
  /\ k \in DOMAIN entityMetadatas
  /\ ret' = Call("getEntityIdMap", k, entity, JsUndefined,
                 Return(getEntityIdMap(entityMetadatas[k], columnHeap, entity)))
  /\ UNCHANGED <<storage, pass, entityMetadatas, columnHeap, connection>>

\* The columns handed to getValueMap: two columns of the embedded address, the name, and
\* the _id of a document, an ObjectId column.
ValueColumns ==
  ColumnKey(0, 3) :> ColumnMetadata("User", "name", <<"name">>, FALSE, TRUE)
  @@ ColumnKey(0, 4) :> ColumnMetadata("User", "city", <<"address", "city">>, FALSE, TRUE)
  @@ ColumnKey(0, 5) :> ColumnMetadata("User", "zip", <<"address", "zip">>, FALSE, TRUE)
  @@ ColumnKey(0, 6) :> [ColumnMetadata("User", "_id", <<"_id">>, TRUE, FALSE)
                           EXCEPT !.isObjectId = TRUE]

\* The lists of different columns, up to MaxValueColumns long.
ColumnLists ==
  {columns \in UNION {[1..n -> DOMAIN ValueColumns] : n \in 0..MaxValueColumns} :
     \A i \in DOMAIN columns, j \in DOMAIN columns : columns[i] = columns[j] => i = j}

\* The entities handed to getValueMap; a leaf Undefined is a missing property.
ValueEntities ==
  {JsObject({e \in {<<<<"name">>, name>>, <<<<"address", "city">>, city>>,
                     <<<<"address", "zip">>, zip>>, <<<<"_id">>, id>>} :
               e[2] # Undefined}) :
     name \in {"x", Null}, city \in {"c1", Null, Undefined}, zip \in {"z1", Undefined},
     id \in {"o1", Undefined}}

\* A caller asks for the value map of an entity over a list of columns.
GetValueMap(entity, columns, skipNulls) ==
  /\ ret' = Call("getValueMap", 0, entity, [columns |-> columns, skipNulls |-> skipNulls],
                 Return(getValueMap(entity, columns, columnHeap, skipNulls)))
  /\ UNCHANGED <<storage, pass, entityMetadatas, columnHeap, connection>>

\* A caller asks entityMetadatas[k] for the mixed id map of an entity.
GetEntityIdMixedMap(k, entity) ==
  /\ k \in DOMAIN entityMetadatas
  /\ ret' = Call("getEntityIdMixedMap", k, entity, JsUndefined,
                 getEntityIdMixedMap(entityMetadatas[k], columnHeap, entity))
  /\ UNCHANGED <<storage, pass, entityMetadatas, columnHeap, connection>>

\* The entities asked whether they have an id: the id may be zero or the empty string.
KeyEntities ==
  {EntityObject(id, key) :
     id \in {"u1", "", Zero, Null, Undefined}, key \in {"u1", "", Null}}

\* A caller asks entityMetadatas[k] whether the entity, or no entity, has an id.
HasId(k, entity) ==
  /\ k \in DOMAIN entityMetadatas
  /\ ret' = Call("hasId", k, entity, JsUndefined,
                 Return(JsBoolean(hasId(entityMetadatas[k], columnHeap, entity))))
  /\ UNCHANGED <<storage, pass, entityMetadatas, columnHeap, connection>>

\* A caller asks entityMetadatas[k] whether the entity has all its primary keys.
HasAllPrimaryKeys(k, entity) ==
  /\ k \in DOMAIN entityMetadatas
  /\ ret' = Call("hasAllPrimaryKeys", k, entity, JsUndefined,
                 Return(JsBoolean(hasAllPrimaryKeys(entityMetadatas[k], columnHeap, entity))))
  /\ UNCHANGED <<storage, pass, entityMetadatas, columnHeap, connection>>

\* ------------------------------------------------- property paths

\* RelationMetadata: the property it sits on, its kind and the columns it joins by.
RelationMetadata(propertyPath, kind, joinColumns) ==
  [propertyPath |-> propertyPath, kind |-> kind, joinColumns |-> joinColumns]

\* A findColumnWithPropertyPath that gives the first join column of a relation that has any.
findColumnWithPropertyPathFirstJoinColumn(em, heap, propertyPath) ==
  LET column == FirstIn({i \in DOMAIN em.columns :
                           heap[em.columns[i]].propertyPath = propertyPath})
      relation == FirstIn({i \in DOMAIN em.relations :
                             em.relations[i].propertyPath = propertyPath})
  IN  IF column # 0 THEN em.columns[column]
      ELSE IF relation # 0 /\ Len(em.relations[relation].joinColumns) >= 1
      THEN em.relations[relation].joinColumns[1]
      ELSE UndefinedColumn

\* EntityMetadata.findColumnWithPropertyPath(propertyPath)
findColumnWithPropertyPath(em, heap, propertyPath) ==
  LET column == FirstIn({i \in DOMAIN em.columns :
                           heap[em.columns[i]].propertyPath = propertyPath})
      relation == FirstIn({i \in DOMAIN em.relations :
                             em.relations[i].propertyPath = propertyPath})
  IN  IF column # 0 THEN em.columns[column]
      ELSE IF relation # 0 /\ Len(em.relations[relation].joinColumns) = 1
      THEN em.relations[relation].joinColumns[1]
      ELSE UndefinedColumn

\* EntityMetadata.findColumnsWithPropertyPath(propertyPath)
findColumnsWithPropertyPath(em, heap, propertyPath) ==
  LET column == FirstIn({i \in DOMAIN em.columns :
                           heap[em.columns[i]].propertyPath = propertyPath})
      relation == FirstIn({i \in DOMAIN em.relations :
                             em.relations[i].propertyPath = propertyPath})
  IN  IF column # 0 THEN <<em.columns[column]>>
      ELSE IF relation # 0 THEN em.relations[relation].joinColumns
      ELSE <<>>

\* The columns of a Post: its title and the columns its relations join by.
PathColumns ==
  ColumnKey(0, 7) :> ColumnMetadata("Post", "title", <<"title">>, FALSE, FALSE)
  @@ ColumnKey(0, 8) :> ColumnMetadata("Post", "authorId", <<"authorId">>, FALSE, FALSE)
  @@ ColumnKey(0, 9) :> ColumnMetadata("Post", "authorKey", <<"authorKey">>, FALSE, FALSE)
  @@ ColumnKey(0, 10) :> ColumnMetadata("post_tags", "postId", <<"postId">>, TRUE, FALSE)

\* The relations a Post may have: its author by a single or by a composite key, its
\* tags through a junction table, its comments (joined from the other side), and a
\* relation declared on the property title, which is a column too.
PathRelations ==
  {RelationMetadata(<<"author">>, "many-to-one", <<ColumnKey(0, 8)>>),
   RelationMetadata(<<"author">>, "many-to-one", <<ColumnKey(0, 8), ColumnKey(0, 9)>>),
   RelationMetadata(<<"tags">>, "many-to-many", <<ColumnKey(0, 10)>>),
   RelationMetadata(<<"comments">>, "one-to-many", <<>>),
   RelationMetadata(<<"title">>, "one-to-one", <<ColumnKey(0, 8)>>)}

\* The lists of relations, one for a property at most, up to MaxRelations long.
RelationLists ==
  {relations \in UNION {[1..n -> PathRelations] : n \in 0..MaxRelations} :
     \A i \in DOMAIN relations, j \in DOMAIN relations :
        relations[i].propertyPath = relations[j].propertyPath => i = j}

PathColumnLists ==
  {<<>>, <<ColumnKey(0, 7)>>, <<ColumnKey(0, 7), ColumnKey(0, 8)>>,
   <<ColumnKey(0, 8), ColumnKey(0, 9), ColumnKey(0, 7)>>}

PropertyPaths ==
  {<<"title">>, <<"author">>, <<"tags">>, <<"comments">>, <<"authorId">>, <<"author", "id">>}

\* A caller asks entityMetadatas[k] for the column of a property path.
FindColumnWithPropertyPath(k, propertyPath) ==
  /\ k \in DOMAIN entityMetadatas
  /\ ret' = Call("findColumnWithPropertyPath", k, propertyPath, JsUndefined,
                 Return(findColumnWithPropertyPath(entityMetadatas[k], columnHeap,
                                                   propertyPath)))
  /\ UNCHANGED <<storage, pass, entityMetadatas, columnHeap, connection>>

\* A caller asks entityMetadatas[k] for the columns of a property path.
FindColumnsWithPropertyPath(k, propertyPath) ==
  /\ k \in DOMAIN entityMetadatas
  /\ ret' = Call("findColumnsWithPropertyPath", k, propertyPath, JsUndefined,
                 Return(findColumnsWithPropertyPath(entityMetadatas[k], columnHeap,
                                                    propertyPath)))
  /\ UNCHANGED <<storage, pass, entityMetadatas, columnHeap, connection>>

\* A caller compares two entities by their ids.
CompareEntities(k, firstEntity, secondEntity) ==
  /\ k \in DOMAIN entityMetadatas
  /\ ret' = Call("compareEntities", k, firstEntity, secondEntity,
                 Return(JsBoolean(compareEntities(entityMetadatas[k], columnHeap,
                                                  firstEntity, secondEntity))))
  /\ UNCHANGED <<storage, pass, entityMetadatas, columnHeap, connection>>

Init ==
  /\ storage = EmptyStorage
  /\ pass = "idle"
  /\ entityMetadatas = <<>>
  /\ columnHeap = RuntimeColumns
  /\ ret = NoCall
  /\ connection = NotOpened("off")

\* The places the runtime columns were registered in so far: <<metadata, column>>.
Registered ==
  {kc \in (DOMAIN entityMetadatas) \X (DOMAIN RuntimeColumns) :
     Contains(entityMetadatas[kc[1]].ownColumns, kc[2])}

\* The single-table group: registrations, one build, then columns registered at runtime.
Next ==
  \/ \E args \in KeyTables : Entity(args.target, args.type, args.name)
  \/ \E target \in GroupInheritanceTargets : TableInheritance(target)
  \/ \E args \in KeyColumnChoices :
        Column(args.target, args.propertyName, args.options.primary, args.options.nullable)
  \/ \E g \in GenerationChoices : Generated(g.target, g.propertyName, g.strategy)
  \/ \E entityClasses \in EntityClassLists : Build(entityClasses)
  \/ \E k \in DOMAIN entityMetadatas, column \in {ColumnKey(0, 2), ColumnKey(0, 3)} :
        /\ <<k, column>> \in Registered \/ Cardinality(Registered) < MaxRegistered
        /\ RegisterColumn(k, column)

Spec == Init /\ [][Next]_vars

\* The table registrations alone: any tables, any roots, one build.
NextTables ==
  \/ \E args \in TableChoices : Entity(args.target, args.type, args.name)
  \/ \E target \in InheritanceTargets : TableInheritance(target)
  \/ \E entityClasses \in EntityClassLists : Build(entityClasses)

SpecTables == Init /\ [][NextTables]_vars

\* The single-table group with its columns, registered and built.
NextColumns ==
  \/ \E args \in GroupTables : Entity(args.target, args.type, args.name)
  \/ \E target \in GroupInheritanceTargets : TableInheritance(target)
  \/ \E args \in ColumnChoices :
        Column(args.target, args.propertyName, args.options.primary, args.options.nullable)
  \/ \E entityClasses \in EntityClassLists : Build(entityClasses)

SpecColumns == Init /\ [][NextColumns]_vars

\* One EntityMetadata constructed for the table of User, its columns registered one
\* by one, and the id-map operations called on it.
InitId ==
  /\ storage = EmptyStorage
  /\ pass = "idle"
  /\ entityMetadatas =
       <<EntityMetadata(TableMetadataArgs("User", "regular", NoName), <<"User">>, Undefined)>>
  /\ columnHeap = RuntimeColumns
  /\ ret = NoCall
  /\ connection = NotOpened("off")

NextId ==
  \/ \E column \in DOMAIN RuntimeColumns : RegisterColumn(1, column)
  \/ \E id \in Ids : EnsureEntityIdMap(1, id)
  \/ \E entity \in Entities : GetEntityIdMap(1, entity)
  \/ \E entity \in Entities : GetEntityIdMixedMap(1, entity)
  \/ \E entity \in KeyEntities \cup {JsUndefined} : HasId(1, entity)
  \/ \E entity \in KeyEntities : HasAllPrimaryKeys(1, entity)
  \/ \E firstEntity \in Entities, secondEntity \in Entities :
        CompareEntities(1, firstEntity, secondEntity)

SpecId == InitId /\ [][NextId]_vars

\* The static getValueMap, called on entities with embedded values.
InitValues ==
  /\ storage = EmptyStorage
  /\ pass = "idle"
  /\ entityMetadatas = <<>>
  /\ columnHeap = ValueColumns
  /\ ret = NoCall
  /\ connection = NotOpened("off")

NextValues ==
  \E entity \in ValueEntities, columns \in ColumnLists, skipNulls \in BOOLEAN :
     GetValueMap(entity, columns, skipNulls)

SpecValues == InitValues /\ [][NextValues]_vars

\* One built EntityMetadata of Post with its columns and relations, asked for the
\* columns of property paths.
InitPaths ==
  /\ storage = EmptyStorage
  /\ pass = "done"
  /\ \E columns \in PathColumnLists, relations \in RelationLists :
        entityMetadatas =
          <<[EntityMetadata(TableMetadataArgs("Post", "regular", NoName), <<"Post">>, Undefined)
               EXCEPT !.ownColumns = columns, !.columns = columns, !.relations = relations]>>
  /\ columnHeap = PathColumns
  /\ ret = NoCall
  /\ connection = NotOpened("off")

NextPaths ==
  \/ \E propertyPath \in PropertyPaths : FindColumnWithPropertyPath(1, propertyPath)
  \/ \E propertyPath \in PropertyPaths : FindColumnsWithPropertyPath(1, propertyPath)

SpecPaths == InitPaths /\ [][NextPaths]_vars

\* The registrations of the connection runs: a single-table group, a table in a named
\* database, and a schema-defined target.
ConnectTables ==
  {TableMetadataArgs("ContentModel", "regular", NoName),
   TableMetadataArgs("Post", "entity-child", NoName),
   TableMetadataArgs("audit", "regular", NoName)}

\* A connection with or without a query result cache; classes are registered, then
\* connect() and close() run from await to await while other tasks read the connection.
InitConnect ==
  /\ storage = EmptyStorage
  /\ pass = "idle"
  /\ entityMetadatas = <<>>
  /\ columnHeap = RuntimeColumns
  /\ ret = NoCall
  /\ \E queryResultCache \in {"off", "disconnected"} :
        connection = NotOpened(queryResultCache)

NextConnect ==
  \/ \E args \in ConnectTables :
        connection.connect = "none" /\ Entity(args.target, args.type, args.name)
  \/ connection.connect = "none" /\ EntityInDatabase("Post", NoName, "app")
  \/ connection.connect = "none" /\ TableInheritance("ContentModel")
  \/ Connect
  \/ DriverConnected
  \/ CacheConnected
  \/ AfterConnected
  \/ Close
  \/ \E caller \in {"connect", "user"} : DriverDisconnected(caller)
  \/ \E caller \in {"connect", "user"} : CacheDisconnected(caller)
  \/ IsConnected
  \/ \E target \in LookupTargets : GetMetadata(target)

SpecConnect == InitConnect /\ [][NextConnect]_vars

\* The registrations of the runs that follow build loop by loop.
PassTables ==
  {TableMetadataArgs("ContentModel", "regular", NoName),
   TableMetadataArgs("Post", "entity-child", NoName),
   TableMetadataArgs("User", "regular", NoName)}
PassColumnChoices == {ColumnMetadataArgs("Unit", "id", TRUE, FALSE)}

\* Registrations, then one build followed from loop to loop and item to item.
NextPasses ==
  \/ \E args \in PassTables : Entity(args.target, args.type, args.name)
  \/ TableInheritance("ContentModel")
  \/ \E args \in PassColumnChoices :
        Column(args.target, args.propertyName, args.options.primary, args.options.nullable)
  \/ Generated("Unit", "id", "uuid")
  \/ BuildStarts
  \/ BuildVisits
  \/ BuildNextPass

SpecPasses == Init /\ [][NextPasses]_vars

\* The registrations of the runs about generated columns: two tables, an untyped
\* and a typed column, and the generations that may be registered for them.
GeneratedTables ==
  {TableMetadataArgs("ContentModel", "regular", NoName),
   TableMetadataArgs("User", "regular", NoName)}
GeneratedChoices ==
  {[target |-> "Unit", propertyName |-> "id", strategy |-> "increment"],
   [target |-> "Unit", propertyName |-> "id", strategy |-> "uuid"],
   [target |-> "User", propertyName |-> "code", strategy |-> "increment"],
   [target |-> "User", propertyName |-> "code", strategy |-> "uuid"]}

NextGenerated ==
  \/ \E args \in GeneratedTables : Entity(args.target, args.type, args.name)
  \/ Column("Unit", "id", TRUE, FALSE)
  \/ ColumnOfType("User", "code", "varchar")
  \/ \E g \in GeneratedChoices : Generated(g.target, g.propertyName, g.strategy)
  \/ \E entityClasses \in EntityClassLists : Build(entityClasses)

SpecGenerated == Init /\ [][NextGenerated]_vars

\* The drivers a connection may have.
DriverTypes == {"mysql", "mongodb", "postgres", "mssql"}

\* The registrations of the runs about uniques: a single-table parent, its child and
\* a table of a subclass; uniques and indices declared on the classes of the chain.
UniqueTables ==
  {TableMetadataArgs("ContentModel", "regular", NoName),
   TableMetadataArgs("Post", "entity-child", NoName),
   TableMetadataArgs("Post", "regular", NoName)}
UniqueChoices ==
  {[target |-> "Unit", name |-> "UQ_unit"], [target |-> "Post", name |-> "UQ_post"]}

InitUniques ==
  /\ storage = EmptyStorage
  /\ pass = "idle"
  /\ entityMetadatas = <<>>
  /\ columnHeap = RuntimeColumns
  /\ ret = NoCall
  /\ \E driverType \in DriverTypes :
        connection = [NotOpened("off") EXCEPT !.driverType = driverType]

NextUniques ==
  \/ \E args \in UniqueTables : Entity(args.target, args.type, args.name)
  \/ TableInheritance("ContentModel")
  \/ \E args \in UniqueChoices : Unique(args.target, args.name)
  \/ \E unique \in BOOLEAN : Index("ContentModel", "IDX_title", unique)
  \/ \E entityClasses \in EntityClassLists : Build(entityClasses)

SpecUniques == InitUniques /\ [][NextUniques]_vars

\* The databases and schemas a registration or the connection options may name.
Databases == {Undefined, "", "app"}
Schemas == {Undefined, "", "sales"}

\* A connection of some driver type, with or without options.schema; tables of User
\* registered in a database and a schema, then built.
InitTablePaths ==
  /\ storage = EmptyStorage
  /\ pass = "idle"
  /\ entityMetadatas = <<>>
  /\ columnHeap = RuntimeColumns
  /\ ret = NoCall
  /\ \E driverType \in DriverTypes, schema \in {Undefined, "public"} :
        connection = [NotOpened("off") EXCEPT !.driverType = driverType, !.schema = schema]

NextTablePaths ==
  \/ \E database \in Databases, schema \in Schemas : EntityInSchema("User", database, schema)
  \/ \E entityClasses \in EntityClassLists : Build(entityClasses)

SpecTablePaths == InitTablePaths /\ [][NextTablePaths]_vars

\* The registrations of User with its embedded Address, and the columns a caller hands
\* to registerColumn after the build: another column of the path id, and a column of
\* the path address.city.
EmbeddedColumnChoices ==
  {ColumnMetadataArgs("User", "id", TRUE, FALSE),
   ColumnMetadataArgs("Address", "city", FALSE, TRUE)}
EmbeddedGenerationChoices ==
  {[target |-> "User", propertyName |-> "id", strategy |-> strategy] :
     strategy \in {"increment", "uuid"}}
EmbeddedRuntimeColumns ==
  ColumnKey(0, 1) :> ColumnMetadata("User", "id", <<"id">>, TRUE, FALSE)
  @@ ColumnKey(0, 4) :> ColumnMetadata("User", "city", <<"address", "city">>, FALSE, TRUE)

InitEmbedded ==
  /\ storage = EmptyStorage
  /\ pass = "idle"
  /\ entityMetadatas = <<>>
  /\ columnHeap = EmbeddedRuntimeColumns
  /\ ret = NoCall
  /\ connection = NotOpened("off")

NextEmbedded ==
  \/ Entity("User", "regular", NoName)
  \/ \E args \in EmbeddedColumnChoices :
        Column(args.target, args.propertyName, args.options.primary, args.options.nullable)
  \/ Embedded("User", "address", "Address")
  \/ \E g \in EmbeddedGenerationChoices : Generated(g.target, g.propertyName, g.strategy)
  \/ \E entityClasses \in EntityClassLists : Build(entityClasses)
  \/ \E k \in DOMAIN entityMetadatas, column \in DOMAIN EmbeddedRuntimeColumns :
        RegisterColumn(k, column)

SpecEmbedded == InitEmbedded /\ [][NextEmbedded]_vars

\* A class hierarchy of regular tables: the registry holds up to MaxHierarchyTables
\* tables of Unit, ContentModel and Post, one for a class at most, in any order, and
\* the column title of ContentModel; one
\* build, then columns handed to registerColumn: a new one, or one that build created.
HierarchyRegistries ==
  {tables \in UNION {[1..n -> {TableMetadataArgs(target, "regular", NoName) :
                                 target \in {"Unit", "ContentModel", "Post"}}] :
                       n \in 0..MaxHierarchyTables} :
     \A i \in DOMAIN tables, j \in DOMAIN tables : tables[i] = tables[j] => i = j}

InitHierarchy ==
  /\ \E tables \in HierarchyRegistries :
        storage = [EmptyStorage EXCEPT
                     !.tables = tables,
                     !.columns = <<ColumnMetadataArgs("ContentModel", "title", FALSE, TRUE)>>]
  /\ pass = "idle"
  /\ entityMetadatas = <<>>
  /\ columnHeap = RuntimeColumns
  /\ ret = NoCall
  /\ connection = NotOpened("off")

\* The places registerColumn pushed a column to so far: <<metadata, column>>.
Placed ==
  {kc \in (DOMAIN entityMetadatas) \X (DOMAIN columnHeap) :
     kc[2].em # kc[1] /\ Contains(entityMetadatas[kc[1]].ownColumns, kc[2])}

NextHierarchy ==
  \/ \E entityClasses \in EntityClassLists : Build(entityClasses)
  \/ \E k \in DOMAIN entityMetadatas,
        column \in {c \in DOMAIN columnHeap : c = ColumnKey(0, 3) \/ c.em > 0} :
        /\ pass = "done"
        /\ <<k, column>> \in Placed \/ Cardinality(Placed) < MaxPlaced
        /\ RegisterColumn(k, column)

SpecHierarchy == InitHierarchy /\ [][NextHierarchy]_vars

\* ------------------------------------------- overlapping connect() and close()

\* The tasks that call connect() and close() on the one Connection. A call is
\* [op, pc, caught]: pc names the await the call is suspended at, "none" when the
\* task has no call in flight.
Callers == 1..MaxCallers
NoCallInFlight == [op |-> "none", pc |-> "none", caught |-> Undefined]

\* The Connection with the calls in flight on it; driverConnects counts the
\* driver.connect() calls made since the driver was last disconnected: 0, 1, or 2 for
\* two and more.
SharedConnection ==
  [isCurrentConnected |-> FALSE, driver |-> "disconnected", driverConnects |-> 0,
   queryResultCache |-> "off", calls |-> [p \in Callers |-> NoCallInFlight]]

\* Task p calls connect(): it throws when the flag is set, else calls driver.connect()
\* and awaits it.
CallConnect(p) ==
  /\ connection.calls[p].pc = "none"
  /\ IF connection.isCurrentConnected
     THEN /\ ret' = [op |-> "connect", caller |-> p, wasConnected |-> TRUE,
                     result |-> Throw("CannotConnectAlreadyConnectedError")]
          /\ UNCHANGED connection
     ELSE /\ connection' =
               [connection EXCEPT
                  !.calls[p] = [op |-> "connect", pc |-> "driver.connect",
                                caught |-> Undefined],
                  !.driverConnects = IF @ = 0 THEN 1 ELSE 2]
          /\ ret' = ret
  /\ UNCHANGED <<storage, pass, entityMetadatas, columnHeap>>

\* driver.connect() of task p's connect() has resolved; there is no cache. The flag is
\* set, buildMetadatas builds and validates, and the call goes on to
\* driver.afterConnect(), or into its catch block, where close() finds the flag set
\* and calls driver.disconnect().
CallDriverConnected(p) ==
  /\ connection.calls[p].pc = "driver.connect"
  /\ LET built == buildAll([given |-> FALSE, classes |-> {}])
         validated == validateMany(built.entityMetadatas)
     IN  /\ entityMetadatas' = built.entityMetadatas
         /\ columnHeap' = built.columnHeap
         /\ pass' = "done"
         /\ connection' =
               [connection EXCEPT
                  !.driver = "connected",
                  !.isCurrentConnected = TRUE,
                  !.calls[p] =
                     IF validated.tag = "return"
                     THEN [@ EXCEPT !.pc = "driver.afterConnect"]
                     ELSE [@ EXCEPT !.pc = "driver.disconnect",
                                    !.caught = validated.error]]
  /\ UNCHANGED <<storage, ret>>

\* driver.afterConnect() has resolved: connect() returns the connection.
CallAfterConnected(p) ==
  /\ connection.calls[p].pc = "driver.afterConnect"
  /\ connection' = [connection EXCEPT !.calls[p] = NoCallInFlight]
  /\ ret' = [op |-> "connect", caller |-> p, wasConnected |-> FALSE,
             result |-> Return(JsString("this"))]
  /\ UNCHANGED <<storage, pass, entityMetadatas, columnHeap>>

\* Task p calls close(): it throws when the flag is not set, else calls
\* driver.disconnect() and awaits it.
CallClose(p) ==
  /\ connection.calls[p].pc = "none"
  /\ IF ~connection.isCurrentConnected
     THEN /\ ret' = [op |-> "close", caller |-> p, wasConnected |-> FALSE,
                     result |-> Throw("CannotExecuteNotConnectedError")]
          /\ UNCHANGED connection
     ELSE /\ connection' =
               [connection EXCEPT
                  !.calls[p] = [op |-> "close", pc |-> "driver.disconnect",
                                caught |-> Undefined]]
          /\ ret' = ret
  /\ UNCHANGED <<storage, pass, entityMetadatas, columnHeap>>

\* driver.disconnect() of a close() has resolved: the flag is cleared and close()
\* returns, to the task or to the catch block of connect(), which throws what it caught.
CallDriverDisconnected(p) ==
  /\ connection.calls[p].pc = "driver.disconnect"
  /\ connection' =
        [connection EXCEPT
           !.driver = "disconnected",
           !.driverConnects = 0,
           !.isCurrentConnected = FALSE,
           !.calls[p] = NoCallInFlight]
  /\ ret' = IF connection.calls[p].op = "connect"
            THEN [op |-> "connect", caller |-> p, wasConnected |-> FALSE,
                  result |-> Throw(connection.calls[p].caught)]
            ELSE [op |-> "close", caller |-> p, wasConnected |-> TRUE,
                  result |-> Return(JsUndefined)]
  /\ UNCHANGED <<storage, pass, entityMetadatas, columnHeap>>

\* The registry is empty, or holds an entity-child without a parent, which the
\* validation of buildMetadatas rejects.
InitOverlap ==
  /\ \E tables \in {<<>>, <<TableMetadataArgs("Post", "entity-child", NoName)>>} :
        storage = [EmptyStorage EXCEPT !.tables = tables]
  /\ pass = "idle"
  /\ entityMetadatas = <<>>
  /\ columnHeap = RuntimeColumns
  /\ ret = NoCall
  /\ connection = SharedConnection

NextOverlap ==
  \E p \in Callers :
     \/ CallConnect(p)
     \/ CallDriverConnected(p)
     \/ CallAfterConnected(p)
     \/ CallClose(p)
     \/ CallDriverDisconnected(p)

SpecOverlap == InitOverlap /\ [][NextOverlap]_vars

\* ------------------------------------------------- TransactionQueryRunner

\* new TransactionQueryRunner(queryIssuer): the queryIssuer is the connection taken
\* for the runner; it keeps the statements issued on it, each with the number of
\* release() calls made before it, and that number now. call names the method that
\* awaits its query, "none" between calls.
TransactionQueryRunner ==
  [queryIssuer |-> [statements |-> <<>>, released |-> 0], call |-> "none"]

\* this.queryIssuer.query(text)
queryIssuerQuery(runner, text) ==
  [runner EXCEPT !.queryIssuer.statements =
     Append(@, [query |-> text, released |-> runner.queryIssuer.released])]

\* releaseConnection: this.queryIssuer.release()
releaseConnection(runner) ==
  [runner EXCEPT !.queryIssuer.released = @ + 1]

IsolationLevels == {Undefined, "SERIALIZABLE"}

\* startTransaction(isolationLevel), to its await.
StartTransaction(isolationLevel) ==
  /\ connection.call = "none"
  /\ Len(connection.queryIssuer.statements) < MaxStatements
  /\ connection' = [queryIssuerQuery(connection, isolationLevel)
                      EXCEPT !.call = "startTransaction"]
  /\ UNCHANGED <<storage, pass, entityMetadatas, columnHeap, ret>>

\* commitTransaction(), to its first await.
CommitTransaction ==
  /\ connection.call = "none"
  /\ Len(connection.queryIssuer.statements) < MaxStatements
  /\ connection' = [queryIssuerQuery(connection, "COMMIT") EXCEPT !.call = "commitTransaction"]
  /\ UNCHANGED <<storage, pass, entityMetadatas, columnHeap, ret>>

\* rollbackTransaction(), to its first await.
RollbackTransaction ==
  /\ connection.call = "none"
  /\ Len(connection.queryIssuer.statements) < MaxStatements
  /\ connection' = [queryIssuerQuery(connection, "ROLLBACK")
                      EXCEPT !.call = "rollbackTransaction"]
  /\ UNCHANGED <<storage, pass, entityMetadatas, columnHeap, ret>>

\* The awaited query has resolved: commitTransaction and rollbackTransaction release
\* the connection, and the method returns.
QueryResolved ==
  /\ connection.call # "none"
  /\ connection' =
        IF connection.call = "startTransaction"
        THEN [connection EXCEPT !.call = "none"]
        ELSE [releaseConnection(connection) EXCEPT !.call = "none"]
  /\ ret' = [op |-> connection.call, result |-> Return(JsUndefined)]
  /\ UNCHANGED <<storage, pass, entityMetadatas, columnHeap>>

\* The awaited query has rejected: the method throws at its await.
QueryRejected ==
  /\ connection.call # "none"
  /\ connection' = [connection EXCEPT !.call = "none"]
  /\ ret' = [op |-> connection.call, result |-> Throw("QueryFailedError")]
  /\ UNCHANGED <<storage, pass, entityMetadatas, columnHeap>>

InitTransaction ==
  /\ storage = EmptyStorage
  /\ pass = "idle"
  /\ entityMetadatas = <<>>
  /\ columnHeap = RuntimeColumns
  /\ ret = NoCall
  /\ connection = TransactionQueryRunner

NextTransaction ==
  \/ \E isolationLevel \in IsolationLevels : StartTransaction(isolationLevel)
  \/ CommitTransaction
  \/ RollbackTransaction
  \/ QueryResolved
  \/ QueryRejected

SpecTransaction == InitTransaction /\ [][NextTransaction]_vars

\* ------------------------------------------------------------ properties

IsPrimary(c) == columnHeap[c].isPrimary

\* C1: whenever build has returned, and after every registerColumn since (on the
\* entity it was called on and on the children it propagated to), primaryColumns of
\* every entity is exactly its columns with isPrimary, in order, and
\* hasMultiplePrimaryKeys says whether there is more than one of them.
C1_PrimaryColumnsDerived ==
  pass = "done" =>
    \A k \in DOMAIN entityMetadatas :
       LET em == entityMetadatas[k]
       IN  /\ em.primaryColumns = SelectSeq(em.columns, IsPrimary)
           /\ em.hasMultiplePrimaryKeys = (Len(em.primaryColumns) > 1)

\* registerColumn has just added a primary column to an entity that had one from the
\* build (a generated one, so the late pass ran), and to a child of it.
C1_Witness ==
  /\ pass = "done"
  /\ ret.op = "registerColumn"
  /\ IsPrimary(ret.column)
  /\ entityMetadatas[ret.em].hasMultiplePrimaryKeys
  /\ \E c \in SeqToSet(entityMetadatas[ret.em].primaryColumns) :
        ~IsRuntimeColumn(c) /\ columnHeap[c].isGenerated
  /\ \E j \in DOMAIN entityMetadatas :
        /\ j # ret.em
        /\ Contains(entityMetadatas[ret.em].childEntityMetadatas, j)
        /\ Contains(entityMetadatas[j].primaryColumns, ret.column)

\* The members of the single-table-inheritance group of root r: r and the entity-child
\* metadatas whose parent it is.
GroupOf(r) ==
  {r} \cup {j \in DOMAIN entityMetadatas :
              /\ entityMetadatas[j].tableType = "entity-child"
              /\ entityMetadatas[j].parentEntityMetadata = r}

Roots ==
  {r \in DOMAIN entityMetadatas :
     /\ entityMetadatas[r].inheritancePattern = "STI"
     /\ entityMetadatas[r].tableType # "entity-child"
     /\ GroupOf(r) # {r}}

\* The column registrations made on the class of a member of the group.
RegisteredOnGroup(r) ==
  {i \in DOMAIN storage.columns :
     \E m \in GroupOf(r) : storage.columns[i].target = entityMetadatas[m].target}

\* C2: after build, every column registered on the class of the root or of a child of
\* a single-table-inheritance group is one column object that is in the columns of
\* the root and of every child.
C2_GroupSharesColumns ==
  pass = "done" =>
    \A r \in Roots : \A i \in RegisteredOnGroup(r) :
       \E c \in DOMAIN columnHeap :
          /\ c.arg = i /\ ~IsRuntimeColumn(c)
          /\ \A m \in GroupOf(r) : Contains(entityMetadatas[m].columns, c)

HasEntityChild(target) ==
  \E j \in DOMAIN entityMetadatas :
     entityMetadatas[j].tableType = "entity-child" /\ entityMetadatas[j].target = target

RECURSIVE ParentsToChildren(_)
ParentsToChildren(object) ==
  LET proto == getPrototypeOf(object)
  IN  (IF proto # FunctionPrototype /\ NameOf(proto) # ""
       THEN ParentsToChildren(proto) ELSE <<>>) \o <<object>>

\* C4: the inheritance list of a class, as build gives it to the class's metadata,
\* runs from the root ancestor down to the class, each class once, and goes no
\* further up than the first unnamed ancestor.
C4_InheritanceListRootToLeaf ==
  \A k \in DOMAIN entityMetadatas :
     IsFunction(entityMetadatas[k].target) =>
        LET tree == entityMetadatas[k].inheritanceTree
        IN  /\ Len(tree) >= Len(ParentsToChildren(entityMetadatas[k].target))
            /\ SubSeq(tree, 1, Len(ParentsToChildren(entityMetadatas[k].target)))
                 = ParentsToChildren(entityMetadatas[k].target)

\* The table name a registration resolves to.
ResolvedTableName(args) ==
  namingStrategyTableName(NameOf(args.target), args.name)

\* C5: when two registrations of different classes resolve to the same table name,
\* build does not return an EntityMetadata list.
C5_DuplicateTableNameRaises ==
  (\E i \in DOMAIN storage.tables, j \in DOMAIN storage.tables :
      /\ IsFunction(storage.tables[i].target) /\ IsFunction(storage.tables[j].target)
      /\ storage.tables[i].target # storage.tables[j].target
      /\ storage.tables[i].type = "regular" /\ storage.tables[j].type = "regular"
      /\ ResolvedTableName(storage.tables[i]) = ResolvedTableName(storage.tables[j]))
  => pass # "done"

\* C6: the list build returns never holds two metadatas of the same target.
C6_UniqueTargets ==
  pass = "done" =>
    \A k \in DOMAIN entityMetadatas, j \in DOMAIN entityMetadatas :
       k # j => entityMetadatas[k].target # entityMetadatas[j].target

\* C7: build does not return a list in which an entity-child metadata has no parent
\* because no single-table metadata's inheritance tree holds its target.
C7_OrphanChildRaises ==
  ~(/\ pass = "done"
    /\ \E k \in DOMAIN entityMetadatas :
          /\ entityMetadatas[k].tableType = "entity-child"
          /\ entityMetadatas[k].parentEntityMetadata = 0
          /\ ~\E j \in DOMAIN entityMetadatas :
                /\ entityMetadatas[j].inheritancePattern = "STI"
                /\ Contains(entityMetadatas[j].inheritanceTree, entityMetadatas[k].target))

\* The entity the last id-map call was made on, and its primary columns.
Called == entityMetadatas[ret.em]
PrimaryKeys == SeqToSet(Called.primaryColumns)

C9_ScalarIdMapIsEntityIdMap ==
  (ret.op = "ensureEntityIdMap" /\ ret.a.k = "string" /\ Cardinality(PrimaryKeys) = 1) =>
    \A c \in PrimaryKeys :
       /\ ret.result = Return(JsObject({<<columnHeap[c].propertyPath, ret.a.s>>}))
       /\ \A e \in Entities :
             (e.k = "object" /\ getEntityValue(columnHeap[c], e) = ret.a.s) =>
                Return(getEntityIdMap(Called, columnHeap, e)) = ret.result

\* ensureEntityIdMap was called with "u1" on an entity with the primary column id and a
\* column that is not primary, and some entity has the id "u1".
C9_Witness ==
  /\ ret.op = "ensureEntityIdMap"
  /\ ret.a = JsString("u1")
  /\ PrimaryKeys = {ColumnKey(0, 1)}
  /\ Len(Called.columns) > 1
  /\ ret.result.tag = "return"
  /\ \E e \in Entities : getEntityIdMap(Called, columnHeap, e) = ret.result.value

\* Whether the entity is there and has a value, neither null nor undefined, in every
\* primary column.
HasPrimaryValues(e) ==
  /\ e.k = "object"
  /\ \A c \in PrimaryKeys : getEntityValue(columnHeap[c], e) \notin {Null, Undefined}

\* The values of the entity in the primary columns.
PrimaryValues(e) ==
  {<<columnHeap[c].propertyPath, getEntityValue(columnHeap[c], e)>> : c \in PrimaryKeys}

\* C10: compareEntities never throws; it is true exactly when both entities have a value
\* in every primary column and the values are the same, hence false when an entity is
\* absent or lacks a primary-key value, and compareEntities(a, a) is true exactly when a
\* has its primary-key values.
C10_CompareEntitiesByIdMap ==
  ret.op = "compareEntities" =>
    /\ ret.result.tag = "return"
    /\ ret.result.value =
         JsBoolean(/\ HasPrimaryValues(ret.a) /\ HasPrimaryValues(ret.b)
                   /\ PrimaryValues(ret.a) = PrimaryValues(ret.b))
    /\ (~HasPrimaryValues(ret.a) \/ ~HasPrimaryValues(ret.b)) =>
          ret.result.value = JsBoolean(FALSE)
    /\ ret.a = ret.b => ret.result.value = JsBoolean(HasPrimaryValues(ret.a))

\* Two different entities with the same id were compared on an entity whose primary
\* column is id, and found equal.
C10_Witness ==
  /\ ret.op = "compareEntities"
  /\ PrimaryKeys = {ColumnKey(0, 1)}
  /\ ret.a # ret.b
  /\ ret.a.k = "object" /\ ret.b.k = "object"
  /\ ret.result = Return(JsBoolean(TRUE))

\* The values the entity has in the primary columns, those that are null or undefined
\* left out.
PresentPrimaryValues(e) ==
  {pv \in PrimaryValues(e) : pv[2] \notin {Null, Undefined}}

\* C11 as the specification states it: getEntityIdMap of an absent entity is undefined;
\* of a present one it is the map of the primary columns that have a value on the
\* entity, the others being left out of the map.
C11_IdMapSkipsNullKeys ==
  ret.op = "getEntityIdMap" =>
    ret.result = Return(IF ret.a.k = "object"
                        THEN JsObject(PresentPrimaryValues(ret.a))
                        ELSE JsUndefined)

\* C11: getEntityIdMap of an absent entity is undefined; of a present one it is the map
\* of all the primary columns when each of them has a value on the entity, and undefined
\* as soon as one of them has none (undefined, or null, which is skipped).
C11_IdMapNeedsEveryKey ==
  ret.op = "getEntityIdMap" =>
    ret.result = Return(IF HasPrimaryValues(ret.a)
                        THEN JsObject(PrimaryValues(ret.a))
                        ELSE JsUndefined)

\* getEntityIdMap was called with an entity that has a key and a null id, on an entity
\* whose primary columns are id and key.
C11_Witness ==
  /\ ret.op = "getEntityIdMap"
  /\ PrimaryKeys = {ColumnKey(0, 1), ColumnKey(0, 2)}
  /\ ret.a = EntityObject(Null, "u1")
  /\ ret.result = Return(JsUndefined)

\* Whether the column has no value to contribute from the entity of the last call.
Missing(c) ==
  \/ getEntityValue(columnHeap[c], ret.a) = Undefined
  \/ ret.b.skipNulls /\ getEntityValue(columnHeap[c], ret.a) = Null

C13_MixedMapIsMapOrBareValue ==
  ret.op = "getEntityIdMixedMap" =>
    /\ ret.a.k # "object" => ret.result = Return(ret.a)
    /\ (ret.a.k = "object" /\ Cardinality(PrimaryKeys) > 1) =>
          ret.result = Return(IF HasPrimaryValues(ret.a)
                              THEN JsObject(PrimaryValues(ret.a))
                              ELSE JsUndefined)
    /\ (ret.a.k = "object" /\ Cardinality(PrimaryKeys) = 1) =>
          \A c \in PrimaryKeys :
             ret.result = Return(IF HasPrimaryValues(ret.a)
                                 THEN JsString(getEntityValue(columnHeap[c], ret.a))
                                 ELSE JsUndefined)

\* getEntityIdMixedMap of {id: "u1", name: "x", ...} gave "u1" on an entity whose only
\* primary column is id, next to columns that are not primary.
C13_Witness ==
  /\ ret.op = "getEntityIdMixedMap"
  /\ PrimaryKeys = {ColumnKey(0, 1)}
  /\ Len(Called.columns) > 1
  /\ getEntityValue(columnHeap[ColumnKey(0, 1)], ret.a) = "u1"
  /\ ret.result = Return(JsString("u1"))

\* C14: for a present entity hasAllPrimaryKeys is true exactly when no primary column
\* value is null or undefined, and hasId exactly when hasAllPrimaryKeys is true and no
\* primary column value is the empty string; zero is a value for both; hasId of an
\* absent entity is false.
C14_HasIdIsAllKeysAndNoneEmpty ==
  /\ ret.op = "hasAllPrimaryKeys" =>
        ret.result =
           Return(JsBoolean(\A c \in PrimaryKeys :
                               getEntityValue(columnHeap[c], ret.a) \notin {Null, Undefined}))
  /\ ret.op = "hasId" =>
        ret.result =
           Return(JsBoolean(
              /\ ret.a.k = "object"
              /\ hasAllPrimaryKeys(Called, columnHeap, ret.a)
              /\ \A c \in PrimaryKeys : getEntityValue(columnHeap[c], ret.a) # ""))

\* hasId was asked of an entity whose id is zero and whose key is the empty string, both
\* primary: it has all its primary keys and no id.
C14_Witness ==
  /\ ret.op = "hasId"
  /\ PrimaryKeys = {ColumnKey(0, 1), ColumnKey(0, 2)}
  /\ ret.a = EntityObject(Zero, "")
  /\ hasAllPrimaryKeys(Called, columnHeap, ret.a)
  /\ ret.result = Return(JsBoolean(FALSE))

\* The column of the entity with the property path, 0 when there is none, and the
\* relation with it.
DirectColumn(propertyPath) ==
  FirstIn({i \in DOMAIN Called.columns :
             columnHeap[Called.columns[i]].propertyPath = propertyPath})
RelationAt(propertyPath) ==
  FirstIn({i \in DOMAIN Called.relations : Called.relations[i].propertyPath = propertyPath})

\* findColumnsWithPropertyPath gives [column] for a direct match, else all the join
\* columns of the relation with the path, else the empty list.
ColumnsOfPathAreJoinColumns ==
  ret.op = "findColumnsWithPropertyPath" =>
    ret.result =
      Return(IF DirectColumn(ret.a) # 0 THEN <<Called.columns[DirectColumn(ret.a)]>>
             ELSE IF RelationAt(ret.a) # 0 THEN Called.relations[RelationAt(ret.a)].joinColumns
             ELSE <<>>)

\* C15 as the specification states it: findColumnWithPropertyPath gives the column with
\* the path when there is one; otherwise a to-one relation with the path gives its
\* single join column, and any other case undefined; findColumnsWithPropertyPath is as
\* above.
C15_ToOneRelationGivesJoinColumn ==
  /\ ColumnsOfPathAreJoinColumns
  /\ ret.op = "findColumnWithPropertyPath" =>
       IF DirectColumn(ret.a) # 0
       THEN ret.result = Return(Called.columns[DirectColumn(ret.a)])
       ELSE IF /\ RelationAt(ret.a) # 0
               /\ Called.relations[RelationAt(ret.a)].kind \in {"many-to-one", "one-to-one"}
       THEN /\ Len(Called.relations[RelationAt(ret.a)].joinColumns) = 1
            /\ ret.result = Return(Called.relations[RelationAt(ret.a)].joinColumns[1])
       ELSE ret.result = Return(UndefinedColumn)

\* C15: findColumnWithPropertyPath gives the column with the path when there is one;
\* otherwise a relation with the path that has exactly one join column, whatever its
\* kind, gives that join column, and any other case (no relation, a relation with no
\* join column or with several) undefined; findColumnsWithPropertyPath is as above.
C15_SingleJoinColumnGivesColumn ==
  /\ ColumnsOfPathAreJoinColumns
  /\ ret.op = "findColumnWithPropertyPath" =>
       ret.result =
         Return(IF DirectColumn(ret.a) # 0 THEN Called.columns[DirectColumn(ret.a)]
                ELSE IF /\ RelationAt(ret.a) # 0
                        /\ Len(Called.relations[RelationAt(ret.a)].joinColumns) = 1
                THEN Called.relations[RelationAt(ret.a)].joinColumns[1]
                ELSE UndefinedColumn)

\* The column of the path author was asked of a Post whose author is joined by a
\* composite key: there is none.
C15_Witness ==
  /\ ret.op = "findColumnWithPropertyPath"
  /\ ret.a = <<"author">>
  /\ RelationAt(ret.a) # 0
  /\ Called.relations[RelationAt(ret.a)].kind = "many-to-one"
  /\ Len(Called.relations[RelationAt(ret.a)].joinColumns) = 2
  /\ ret.result = Return(UndefinedColumn)

\* C18: after build, every entity-child metadata that has a parent carries the
\* parent's table identity: its tableName and tablePath are defined, and its
\* tableName, tablePath, database and givenTableName are those of the parent.
C18_ChildReusesParentTable ==
  pass = "done" =>
    \A k \in DOMAIN entityMetadatas :
       LET em == entityMetadatas[k]
       IN  (em.tableType = "entity-child" /\ em.parentEntityMetadata # 0) =>
             LET parent == entityMetadatas[em.parentEntityMetadata]
             IN  /\ em.tableName # Undefined
                 /\ em.tablePath # <<>>
                 /\ em.tableName = parent.tableName
                 /\ em.tablePath = parent.tablePath
                 /\ em.database = parent.database
                 /\ em.givenTableName = parent.givenTableName

\* The connect() call has settled after its try block threw.
ConnectFailed ==
  connection.connect \in {"resolved", "rejected"} /\ connection.caught # Undefined

C17_ConnectedMeansValidated ==
  connection.isCurrentConnected =>
    pass = "done" /\ validateMany(entityMetadatas).tag = "return"

\* A metadata matches a target by identity of class or target, or, for a string, by
\* its tablePath when the string has a dot and by its name or tableName when not.
MatchesTarget(em, target) ==
  \/ ~target.isString /\ IsFunction(em.target) /\ em.target = target.class
  \/ target.isString /\ ~IsFunction(em.target) /\ target.parts = <<em.target>>
  \/ target.isString /\ Len(target.parts) > 1 /\ em.tablePath = target.parts
  \/ target.isString /\ Len(target.parts) = 1
       /\ target.parts[1] \in {em.name, em.tableName}

PassOrder ==
  <<"create", "parents", "children", "step0", "step1", "step2", "inverse",
    "indices", "uniques", "checks", "generated">>
Rank(p) == CHOOSE i \in DOMAIN PassOrder : PassOrder[i] = p

\* The metadatas a pass runs on: all of them, but for table identity and step 1,
\* which run on those that are not entity-child.
RunsOn(p, i) ==
  \/ p \notin {"step0", "step1"}
  \/ createEntityMetadatas([given |-> FALSE, classes |-> {}])[i].tableType # "entity-child"

Visited(p, i) == \E n \in DOMAIN ret.visited : ret.visited[n] = <<p, i>>

\* The pass has run on every metadata it runs on.
Finished(p) ==
  \A i \in DOMAIN createEntityMetadatas([given |-> FALSE, classes |-> {}]) :
     RunsOn(p, i) => Visited(p, i)

\* C20: build visits the metadatas pass by pass in the fixed order: nothing is
\* visited by a pass before every earlier pass has finished, so inverse resolution
\* starts after creation, step 1 and step 2 are over for every metadata and indices
\* and uniques after inverse resolution is; when build returns every pass has finished.
C20_PassesInFixedOrder ==
  ret.op = "build" =>
    /\ \A n \in DOMAIN ret.visited, m \in DOMAIN ret.visited :
          n < m => Rank(ret.visited[n][1]) <= Rank(ret.visited[m][1])
    /\ \A n \in DOMAIN ret.visited :
          \A r \in 1..(Rank(ret.visited[n][1]) - 1) : Finished(PassOrder[r])
    /\ pass = "done" => \A r \in DOMAIN PassOrder : Finished(PassOrder[r])

C20_Witness ==
  /\ ret.op = "build"
  /\ pass = "inverse"
  /\ Visited("inverse", 1) /\ ~Visited("inverse", 2)
  /\ Len(entityMetadatas) = 2
  /\ entityMetadatas[2].tableType = "entity-child"
  /\ entityMetadatas[1].columns # <<>>

\* The metadatas the parent lookup of metadata k accepts.
ParentCandidates(k) ==
  {j \in DOMAIN entityMetadatas :
     /\ entityMetadatas[j].inheritancePattern = "STI"
     /\ Contains(entityMetadatas[j].inheritanceTree, entityMetadatas[k].target)}

\* C21: after build, the parent of every entity-child metadata is another metadata,
\* of pattern STI, whose class is a proper ancestor of the child's class, and it is
\* the only metadata the lookup accepts.
C21_ParentIsUniqueAncestor ==
  pass = "done" =>
    \A k \in DOMAIN entityMetadatas :
       entityMetadatas[k].tableType = "entity-child" =>
         LET parent == entityMetadatas[k].parentEntityMetadata
         IN  /\ parent # 0
             /\ parent # k
             /\ entityMetadatas[parent].inheritancePattern = "STI"
             /\ IsFunction(entityMetadatas[k].target)
             /\ IsFunction(entityMetadatas[parent].target)
             /\ isInherited(entityMetadatas[k].target, entityMetadatas[parent].target)
             /\ ParentCandidates(k) = {parent}

\* The metadatas reached from k through childEntityMetadatas in at most n steps.
RECURSIVE Descendants(_, _)
Descendants(k, n) ==
  IF n = 0 THEN {}
  ELSE LET children == SeqToSet(entityMetadatas[k].childEntityMetadatas)
       IN  children \cup UNION {Descendants(j, n - 1) : j \in children}

\* C22: after build, the children of every metadata are exactly the other metadatas
\* whose class is a direct or transitive subclass of its class, each listed once; no
\* metadata is among its own descendants, and a metadata with a string target has
\* no children and is no one's child.
C22_ChildrenAreTheSubclasses ==
  pass = "done" =>
    \A k \in DOMAIN entityMetadatas :
       LET em == entityMetadatas[k]
           children == em.childEntityMetadatas
       IN  /\ SeqToSet(children) =
                {j \in DOMAIN entityMetadatas \ {k} :
                   /\ em.target \in Classes
                   /\ entityMetadatas[j].target \in Classes
                   /\ em.target \in PrototypeChain(entityMetadatas[j].target)}
           /\ \A n \in DOMAIN children, m \in DOMAIN children :
                 children[n] = children[m] => n = m
           /\ k \notin Descendants(k, Len(entityMetadatas))
           /\ em.target \notin Classes =>
                 /\ children = <<>>
                 /\ \A j \in DOMAIN entityMetadatas :
                       ~Contains(entityMetadatas[j].childEntityMetadatas, k)

C22_Witness ==
  /\ pass = "done"
  /\ \E k \in DOMAIN entityMetadatas, j \in DOMAIN entityMetadatas :
        /\ Contains(entityMetadatas[k].childEntityMetadatas, j)
        /\ getPrototypeOf(entityMetadatas[j].target) # entityMetadatas[k].target

\* The columns of the built metadatas, and the strategy registered for a column.
BuiltColumns == UNION {SeqToSet(entityMetadatas[k].columns) : k \in DOMAIN entityMetadatas}
RegisteredStrategy(c) ==
  {g.strategy : g \in {g \in storage.generations :
                         /\ g.target = columnHeap[c].target
                         /\ g.propertyName = columnHeap[c].propertyName}}
NumericTypes == {"Number", "int"}

\* What the late pass does to everything but the type of a column, and to its owner.
GeneratedPatched(c) ==
  IF RegisteredStrategy(c) = {}
  THEN columnHeap[c] = NewColumnMetadata(storage.columns[c.arg])
  ELSE /\ columnHeap[c].isGenerated
       /\ RegisteredStrategy(c) = {columnHeap[c].generationStrategy}
OwnerRecomputed(k) ==
  entityMetadatas[k].hasUUIDGeneratedColumns =
    \E i \in DOMAIN entityMetadatas[k].columns :
       LET column == columnHeap[entityMetadatas[k].columns[i]]
       IN  column.isGenerated /\ column.generationStrategy = "uuid"

\* C23: after build, every column with a generation registered for its target and
\* property name is generated with the registered strategy and has a numeric type
\* when the strategy is increment and the uuid type otherwise; the owner's derived
\* properties are those of the patched columns; other columns are as they were built.
C23_GeneratedTypeIsNumericOrUuid ==
  pass = "done" =>
    /\ \A c \in BuiltColumns :
          /\ GeneratedPatched(c)
          /\ RegisteredStrategy(c) = {"increment"} => columnHeap[c].type \in NumericTypes
          /\ RegisteredStrategy(c) \notin {{}, {"increment"}} => columnHeap[c].type = "uuid"
    /\ \A k \in DOMAIN entityMetadatas : OwnerRecomputed(k)

\* C23 as amended: with the increment strategy the column keeps the type it
\* declared and becomes Number only when it declared none.
C23_GeneratedTypeIsDeclaredOrNumberOrUuid ==
  pass = "done" =>
    /\ \A c \in BuiltColumns :
          /\ GeneratedPatched(c)
          /\ RegisteredStrategy(c) = {"increment"} =>
                columnHeap[c].type =
                  IF storage.columns[c.arg].options.type # Undefined
                  THEN storage.columns[c.arg].options.type ELSE "Number"
          /\ RegisteredStrategy(c) \notin {{}, {"increment"}} => columnHeap[c].type = "uuid"
    /\ \A k \in DOMAIN entityMetadatas : OwnerRecomputed(k)

C23_Witness ==
  /\ pass = "done"
  /\ \E c \in BuiltColumns :
        /\ RegisteredStrategy(c) = {"increment"}
        /\ columnHeap[c].type = "varchar"
  /\ \E c \in BuiltColumns : RegisteredStrategy(c) = {}

\* How many members of the list satisfy the test.
CountIn(list, Test(_)) == Cardinality({i \in DOMAIN list : Test(list[i])})

\* C24: after build, for every metadata that is not an entity-child and every unique
\* registered on a class of its inheritance tree, a MysqlDriver gives one unique
\* index for it in ownIndices and nothing in uniques; any other driver gives one
\* UniqueMetadata for it in uniques and no index.
C24_UniqueHasOneRepresentation ==
  pass = "done" =>
    \A k \in DOMAIN entityMetadatas, u \in DOMAIN storage.uniques :
       LET em == entityMetadatas[k]
           args == storage.uniques[u]
           registered == CountIn(storage.uniques, LAMBDA a : a = args)
           asIndex == CountIn(em.ownIndices,
                              LAMBDA index : /\ index.args.target = args.target
                                             /\ index.args.name = args.name)
           asUnique == CountIn(em.uniques, LAMBDA unique : unique.args = args)
       IN  (em.tableType # "entity-child" /\ Contains(em.inheritanceTree, args.target)) =>
              IF connection.driverType = "mysql"
              THEN /\ asIndex = registered /\ asUnique = 0
                   /\ \A i \in DOMAIN em.ownIndices :
                         em.ownIndices[i].args.name = args.name =>
                           em.ownIndices[i].args.unique
              ELSE asUnique = registered /\ asIndex = 0

C24_Witness ==
  /\ pass = "done"
  /\ connection.driverType = "mysql"
  /\ \E k \in DOMAIN entityMetadatas :
        /\ Len(entityMetadatas[k].ownIndices) = 2
        /\ ~entityMetadatas[k].ownIndices[1].args.unique
        /\ entityMetadatas[k].ownIndices[2].args.name = "UQ_post"
        /\ entityMetadatas[k].target = "ContentModel"

\* A name is set when it is a string that is not empty.
IsSet(string) == string # Undefined /\ string # ""

\* C25: a built metadata's tablePath is its tableName behind the schema when one is
\* set, behind the database when one is set and the driver is not Postgres (with
\* ".." on SQL Server without a schema); its schemaPath is undefined without a schema,
\* database.schema with a database on a driver that is not Postgres, the schema
\* otherwise; and tablePath is schemaPath.tableName whenever schemaPath is defined.
C25_TablePathComposition ==
  pass = "done" =>
    \A k \in DOMAIN entityMetadatas :
       LET em == entityMetadatas[k]
           registered == em.tableMetadataArgs.schema
           schema == IF IsSet(registered) THEN registered ELSE connection.schema
           database == em.tableMetadataArgs.database
           prefixed == IsSet(database) /\ connection.driverType # "postgres"
       IN  em.tableType # "entity-child" =>
             /\ em.tablePath =
                   CASE IsSet(schema) /\ prefixed -> <<database, schema, em.tableName>>
                     [] IsSet(schema) /\ ~prefixed -> <<schema, em.tableName>>
                     [] ~IsSet(schema) /\ prefixed /\ connection.driverType = "mssql" ->
                          <<database, "", em.tableName>>
                     [] ~IsSet(schema) /\ prefixed /\ connection.driverType # "mssql" ->
                          <<database, em.tableName>>
                     [] OTHER -> <<em.tableName>>
             /\ em.schemaPath =
                   CASE ~IsSet(schema) -> <<>>
                     [] IsSet(schema) /\ prefixed -> <<database, schema>>
                     [] OTHER -> <<schema>>
             /\ em.schemaPath # <<>> => em.tablePath = em.schemaPath \o <<em.tableName>>

C25_Witness ==
  /\ pass = "done"
  /\ connection.driverType = "mssql"
  /\ \E k \in DOMAIN entityMetadatas, j \in DOMAIN entityMetadatas :
        /\ entityMetadatas[k].tablePath = <<"app", "", "user">>
        /\ entityMetadatas[j].tablePath = <<"app", "sales", "user">>

\* C26: once built, and after any registerColumn calls, the columns of a metadata are
\* its ownColumns followed by the columns of its embeddeds, and no two of them have
\* the same propertyPath.
C26_ColumnsAreOwnThenEmbeddedWithUniquePaths ==
  pass = "done" =>
    \A k \in DOMAIN entityMetadatas :
       LET em == entityMetadatas[k]
       IN  /\ em.columns = FlattenEmbeddeds(em.ownColumns, em.embeddeds)
           /\ \A i \in DOMAIN em.columns, j \in DOMAIN em.columns :
                 columnHeap[em.columns[i]].propertyPath
                   = columnHeap[em.columns[j]].propertyPath => i = j

\* C27: once the derived properties are computed, hasUUIDGeneratedColumns tells
\* whether some column of the metadata is generated with the uuid strategy.
C27_HasUuidIffUuidGeneratedColumn ==
  pass = "done" =>
    \A k \in DOMAIN entityMetadatas :
       LET em == entityMetadatas[k]
       IN  em.hasUUIDGeneratedColumns <=>
             \E i \in DOMAIN em.columns :
                /\ columnHeap[em.columns[i]].isGenerated
                /\ columnHeap[em.columns[i]].generationStrategy = "uuid"

\* The metadata the last registerColumn was called on, and its descendants.
RegisteredIn ==
  {ret.em} \cup Descendants(ret.em, Len(entityMetadatas))

\* C28: registerColumn(c) on a metadata that holds c in ownColumns changes nothing on
\* it; otherwise c is afterwards exactly once in ownColumns of the metadata and of
\* every metadata reached through childEntityMetadatas; no ownColumns list ever holds
\* a column twice, and no metadata is its own descendant, so the recursion ends.
C28_RegisterColumnOnceInEveryDescendant ==
  /\ [](\A k \in DOMAIN entityMetadatas :
          /\ \A i \in DOMAIN entityMetadatas[k].ownColumns,
                j \in DOMAIN entityMetadatas[k].ownColumns :
                entityMetadatas[k].ownColumns[i] = entityMetadatas[k].ownColumns[j] => i = j
          /\ k \notin Descendants(k, Len(entityMetadatas)))
  /\ [][\A k \in DOMAIN entityMetadatas :
          (ret'.op = "registerColumn" /\ ret'.em = k) =>
            IF Contains(entityMetadatas[k].ownColumns, ret'.column)
            THEN entityMetadatas'[k] = entityMetadatas[k]
            ELSE \A j \in {k} \cup Descendants(k, Len(entityMetadatas)) :
                    CountIn(entityMetadatas'[j].ownColumns, LAMBDA c : c = ret'.column) = 1]_vars

\* A column that build created for a descendant was registered in a metadata with two
\* descendants or more: the descendant returned early, the others took the column.
C28_Witness ==
  /\ ret.op = "registerColumn"
  /\ Cardinality(Descendants(ret.em, Len(entityMetadatas))) >= 2
  /\ ret.column.em \in Descendants(ret.em, Len(entityMetadatas))
  /\ \A j \in RegisteredIn : Contains(entityMetadatas[j].ownColumns, ret.column)

\* The connect() calls that passed the guard and have not returned.
ConnectsInFlight ==
  {p \in Callers : connection.calls[p].op = "connect"}

\* C29: under any interleaving of connect() and close() calls, no connect() passes
\* the guard while another connect() is in flight or the connection is connected, a
\* close() on a connection that is not connected fails, and driver.connect() is not
\* called twice without a disconnect in between.
C29_OneConnectBetweenCloses ==
  /\ Cardinality(ConnectsInFlight) <= 1
  /\ (ret.op = "close" /\ ~ret.wasConnected) => ret.result.tag = "throw"
  /\ (ret.op = "connect" /\ ret.wasConnected) => ret.result.tag = "throw"
  /\ connection.driverConnects <= 1

\* C30: the connection of a TransactionQueryRunner is released once: it is released
\* when commitTransaction or rollbackTransaction has ended, also when its query
\* failed; it is never released a second time, and no statement is issued on it
\* after its release.
C30_ReleasedExactlyOnce ==
  LET queryIssuer == connection.queryIssuer
  IN  /\ queryIssuer.released <= 1
      /\ \A i \in DOMAIN queryIssuer.statements : queryIssuer.statements[i].released = 0
      /\ ret.op \in {"commitTransaction", "rollbackTransaction"} => queryIssuer.released = 1

====
